---------------------------- MODULE Spec2Model ----------------------------
(***************************************************************************)
(* Model of the StellarStack daemon: backup archive creation, restore and  *)
(* safe extraction (server/backup.rs), server transfer (server/transfer.rs *)
(* and router/handlers/transfer.rs) and the power actions the handlers     *)
(* dispatch (router/handlers/plugins.rs).                                  *)
(*                                                                         *)
(* The module holds several specifications over one set of variables; a    *)
(* specification leaves the variables of the other subsystems at their     *)
(* constructed values.                                                     *)
(*   SpecExtract : one run of extract_backup_safe over an arbitrary        *)
(*                 archive and target directory                            *)
(*   SpecPower   : concurrent control_server requests of one server, the   *)
(*                 transfer flag changing underneath                       *)
(*   SpecServer  : the transfer handlers of one server, interleaved with   *)
(*                 the transitions of its power state machine              *)
(*   SpecBackup  : create_backup / restore_backup / delete_backup of one   *)
(*                 server, with writes to the data directory in between    *)
(*   SpecSink    : one SinkPool (system/sink.rs) pushed to through cloned  *)
(*                 handles, with subscribers that receive or lag           *)
(*   SpecBucket  : one TokenBucket (system/rate_limiter.rs) called through *)
(*                 its clones while the clock advances                     *)
(*   SpecCache   : one DirectoryCache (filesystem/cache.rs) under get,     *)
(*                 put, invalidate and clear while its clock advances      *)
(*   SpecStats   : one StatsBuffer (stats_buffer.rs), on either backend,   *)
(*                 pushed to and read while its clock advances             *)
(*   SpecSchedule: one run after another of execute_schedule_tasks         *)
(*                 (router/handlers/schedules.rs) over arbitrary task      *)
(*                 lists                                                   *)
(*   SpecSftp    : one SFTP session (sftp/handler.rs), one request per     *)
(*                 process_packet call                                     *)
(*   SpecHandles : one SFTP session that opens files and directories and   *)
(*                 works on the handles it is given                        *)
(*   SpecRealpath: one REALPATH request of any short path                   *)
(*   SpecFraming : a stream of SFTP packets handed to process_packet in    *)
(*                 chunks                                                  *)
(*   SpecPush    : SinkPool::push through several handles while the clock  *)
(*                 advances                                                *)
(*   SpecMalformed: a stream of SFTP packets, malformed ones among them,   *)
(*                 handed to process_packet in chunks                      *)
(*   SpecPlugin  : concurrent plugin write requests on one file            *)
(*                 (router/handlers/plugins.rs)                            *)
(*   SpecPoller, SpecPollerFair : the stats pollers on one stats stream   *)
(*                 (environment/docker/stats.rs)                           *)
(*   SpecCpu     : calculate_cpu over the frames of a stats stream         *)
(*                 (environment/docker/stats.rs)                           *)
(***************************************************************************)
EXTENDS Integers, Sequences, FiniteSets, TLC

(***************************************************************************)
(* Bounds of the model.                                                    *)
(***************************************************************************)
\* longest archive handed to extract_backup_safe
MaxEntries == 3
\* depth of the directory trees
MaxDepth == 2
\* concurrent transfer requests (HTTP handlers in flight) of one server
MaxTransferReqs == 2
\* concurrent power requests of one server
MaxPowerReqs == 2
\* most children removed, or entries unpacked, before an I/O failure strikes
MaxFaultPrefix == 1
\* pushes made to one SinkPool
MaxPushes == 4
\* handles (clones) of one SinkPool that push, and its subscribers
MaxProducers == 2
MaxSubscribers == 2
\* clones of one TokenBucket that call it, the calls they make in all, and
\* the times the clock is seen to advance
MaxCallers == 2
MaxCalls == 3
MaxTicks == 2
\* most tokens asked of try_acquire in one call
MaxNeeded == 2
\* operations made on one DirectoryCache, and the last reading of its clock
MaxCacheOps == 4
MaxCacheNow == 3
\* operations made on one StatsBuffer, and the times its clock is seen to
\* advance
MaxStatsOps == 4
MaxStatsTicks == 2
\* tasks of one schedule
MaxTasks == 2
\* events other publishers put on the event bus while one task runs
MaxPublishes == 3

VARIABLES
    \* ---- extract_backup_safe (backup.rs:390-479)
    x_archive,          \* the archive's entries, in archive order
    x_tree,             \* contents of the canonical target directory
    x_outside,          \* contents of the directory outside the target
    x_index,            \* index of the next entry of archive.entries()
    x_file_count,       \* file_count
    x_rejected_count,   \* rejected_count
    x_status,           \* "running", "ok" (returned Ok) or "err" (returned Err)
    \* ---- power state machine of one server (server/power.rs, server/state.rs)
    process_state,      \* ProcessState, the state machine's authoritative copy
    last_state_change,  \* payload of the last Event::StateChange, "None" before
    power_lock,         \* TRUE while a power action holds the transition lock
    ppc,                \* per request: position in control_server
    pact,               \* per request: the PowerAction asked for, or "None"
    pobs,               \* per request: the process state the action observed
    pres,               \* per request: the response
    \* ---- transfer of one server (handlers/transfer.rs, server/transfer.rs)
    is_transferring,    \* ServerState's transfer flag
    data_dir,           \* contents of the server's data directory
    archives,           \* tmp_directory/transfers: transfer id -> archive file
    tpc,                \* per request: position in its handler
    treq,               \* per request: what was asked for
    tres,               \* per request: the response
    tev,                \* per request: the transfer events it has published
    \* ---- backups of one server (server/backup.rs, handlers/backup.rs)
    backup_dir,         \* backup_directory/{server}: file name -> file
    taken,              \* per backup file: the data directory it was taken of
    bpc,                \* position of the backup request being served
    breq,               \* what was asked for
    bevents,            \* the events the request has published, in order
    bresult,            \* what the request returned
    \* ---- SinkPool (system/sink.rs)
    s_buffer,           \* buffer: the ring history, oldest first
    s_dropped,          \* dropped_messages
    s_sent,             \* every value handed to the broadcast channel, in order
    s_next,             \* per subscriber: channel position it reads next, or -1
    s_since,            \* per subscriber: channel position at its subscribe
    s_recv,             \* per subscriber: the values recv has returned
    s_lagged,           \* per subscriber: recv has returned Lagged
    s_ppc,              \* per handle: where its push call stands
    s_pending,          \* per handle: the data of its push call
    s_pushed,           \* the entries appended since the last clear_buffer
    s_count,            \* number of push calls made
    s_pushers,          \* the handles that have pushed
    \* TokenBucket: the two atomics, the clock, and per calling clone the
    \* position in its call, the call's locals and its last result; the
    \* successful acquisitions so far with their times, whether two calls
    \* ever overlapped, and the counts that bound the model
    b_tokens, b_last, b_now, b_pc, b_call, b_res, b_log, b_overlap, b_calls, b_ticks,
    \* DirectoryCache: the map, the clock, what the last get returned, the
    \* last operation and the number of operations so far
    dc_cache, dc_now, dc_got, dc_op, dc_seq,
    \* StatsBuffer: the backend chosen by new, the memory map, the Redis
    \* sorted sets and the expiry of their keys, the clock, what the last
    \* get_history returned, the last operation, and the counts that bound
    \* the model
    sb_backend, sb_mem, sb_zset, sb_expire, sb_now, sb_hist, sb_op, sb_seq, sb_ticks,
    \* execute_schedule_tasks: the schedule's tasks, the loop index, the
    \* position in the loop body, the ScheduleExecuting events published,
    \* the tasks started and finished so far, and the value returned
    sc_tasks, sc_index, sc_pc, sc_events, sc_log, sc_result,
    \* the control-plane notifications of the executor, the queue of the
    \* receiver an ON_COMPLETION task holds on the event bus, whether that
    \* receiver has lost events, and the events others published in the task
    sc_notify, sc_rx, sc_lagged, sc_pub,
    \* the entry the ScheduleStatusTracker holds for the schedule
    sc_status,
    \* the SFTP session: the handler and its volume, the last request and
    \* its result, the handles given and closed, the names listed, and the
    \* channel: bytes waiting, bytes handed over, responses written back
    sf_st, sf_req, sf_res, sf_count, sf_issued, sf_closed, sf_listed, sf_wire, sf_sent, sf_out,
    \* SinkPool::push: the wall clock, and the time each handle read for the
    \* push it has under way
    s_now, s_stamp,
    \* plugin write_file: the file, its content before the first request,
    \* each request's position, arguments and the content it has built, and
    \* the requests made
    pw_file, pw_prev, pw_pc, pw_req, pw_buf, pw_log,
    \* stats poller: which poller runs and where it is, the stream (open or
    \* ended, the item not yet taken, the items sent), the token, and the
    \* frames published and errors logged
    pl_kind, pl_pc, pl_stream, pl_item, pl_frames, pl_cancelled, pl_published, pl_warned,
    \* calculate_cpu: the previous values the poller keeps, the arguments and
    \* the result of the last call, and the calls made
    cc_prev_cpu, cc_prev_system, cc_in, cc_out, cc_calls

extractVars == <<x_archive, x_tree, x_outside, x_index, x_file_count,
                 x_rejected_count, x_status>>

powerVars == <<process_state, last_state_change, power_lock, ppc, pact, pobs, pres>>

transferVars == <<is_transferring, archives, tpc, treq, tres, tev>>

backupVars == <<backup_dir, taken, bpc, breq, bevents, bresult>>

sinkVars == <<s_buffer, s_dropped, s_sent, s_next, s_since, s_recv, s_lagged,
              s_ppc, s_pending, s_pushed, s_count, s_pushers>>

\* the library components, which the handlers above do not touch
bucketVars == <<b_tokens, b_last, b_now, b_pc, b_call, b_res, b_log, b_overlap,
                b_calls, b_ticks>>

cacheVars == <<dc_cache, dc_now, dc_got, dc_op, dc_seq>>

statsVars == <<sb_backend, sb_mem, sb_zset, sb_expire, sb_now, sb_hist, sb_op, sb_seq, sb_ticks>>

scheduleVars == <<sc_tasks, sc_index, sc_pc, sc_events, sc_log, sc_result,
                  sc_notify, sc_rx, sc_lagged, sc_pub, sc_status>>

sftpVars == <<sf_st, sf_req, sf_res, sf_count, sf_issued, sf_closed, sf_listed, sf_wire, sf_sent, sf_out>>

pushVars == <<s_now, s_stamp>>

pluginVars == <<pw_file, pw_prev, pw_pc, pw_req, pw_buf, pw_log>>

pollerVars == <<pl_kind, pl_pc, pl_stream, pl_item, pl_frames, pl_cancelled, pl_published, pl_warned>>

cpuVars == <<cc_prev_cpu, cc_prev_system, cc_in, cc_out, cc_calls>>

libVars == <<sinkVars, bucketVars, cacheVars, statsVars, scheduleVars, sftpVars, pushVars, pluginVars, pollerVars, cpuVars>>

vars == <<extractVars, powerVars, transferVars, data_dir, backupVars, libVars>>

(***************************************************************************)
(* Directory trees.  A path is a sequence of names; a tree maps every path *)
(* to its node.  A symbolic link has data 0 (dangling) or 1 (it points at  *)
(* the directory outside the tree, OutsideDir).                            *)
(***************************************************************************)
Names == {"a", "b"}

NameOrder == <<"a", "b">>

ParentDir == ".."

RECURSIVE PathsUpTo(_)
PathsUpTo(n) ==
    IF n = 0 THEN {}
    ELSE PathsUpTo(n - 1) \cup [1..n -> Names]

AllPaths == PathsUpTo(MaxDepth)

Absent == [kind |-> "absent", data |-> 0]

DirNode == [kind |-> "dir", data |-> 0]

FileNode(d) == [kind |-> "file", data |-> d]

LinkNode(t) == [kind |-> "link", data |-> t]

\* what an operation that failed on a node yields in place of a node
ErrNode == [kind |-> "err", data |-> 0]

EmptyTree == [p \in AllPaths |-> Absent]

EmptyOutside == [n \in Names |-> Absent]

Front(s) == SubSeq(s, 1, Len(s) - 1)

\* the first n elements of s, all of s when it is shorter
Take(s, n) == SubSeq(s, 1, IF n < Len(s) THEN n ELSE Len(s))

\* the cursor of a path resolution that has left the tree
OutsideDir == <<ParentDir>>

\* q is p or lies below p
IsUnder(q, p) == Len(q) >= Len(p) /\ SubSeq(q, 1, Len(p)) = p

\* fs::remove_dir_all / fs::remove_file of path p
RemoveSubtree(tree, p) ==
    [q \in AllPaths |-> IF IsUnder(q, p) THEN Absent ELSE tree[q]]

(***************************************************************************)
(* Path::canonicalize of target_dir joined with the relative components    *)
(* comps: every component must exist, symbolic links are followed and ..   *)
(* steps to the parent.  "inside": the result lies in the target           *)
(* directory; "outside": it lies outside; "err": some component does not   *)
(* exist.                                                                  *)
(***************************************************************************)
RECURSIVE CanonFrom(_, _, _, _)
CanonFrom(tree, outside, cur, rest) ==
    IF rest = <<>> THEN (IF cur = OutsideDir THEN "outside" ELSE "inside")
    ELSE
        LET c == Head(rest)
            more == Tail(rest)
        IN  IF c = ParentDir
            THEN IF cur = OutsideDir THEN "err"
                 ELSE IF cur = <<>> THEN CanonFrom(tree, outside, OutsideDir, more)
                 ELSE CanonFrom(tree, outside, Front(cur), more)
            ELSE IF cur = OutsideDir
            THEN IF outside[c].kind # "absent" /\ more = <<>> THEN "outside" ELSE "err"
            ELSE
                LET p == Append(cur, c)
                IN  IF p \notin AllPaths THEN "err"
                    ELSE CASE tree[p].kind = "absent" -> "err"
                           [] tree[p].kind = "dir" -> CanonFrom(tree, outside, p, more)
                           [] tree[p].kind = "file" ->
                                IF more = <<>> THEN "inside" ELSE "err"
                           [] tree[p].kind = "link" ->
                                IF tree[p].data = 1
                                THEN CanonFrom(tree, outside, OutsideDir, more)
                                ELSE "err"

Canonicalize(tree, outside, comps) == CanonFrom(tree, outside, <<>>, comps)

(***************************************************************************)
(* Archive entries: a path (absolute or relative, its components names or  *)
(* ..), the entry type and the payload (file data, or the link's target).  *)
(***************************************************************************)
Entry(abs, comps, kind, data) ==
    [abs |-> abs, comps |-> comps, kind |-> kind, data |-> data]

\* the operating system's write of one node below the target directory: the
\* parent directory is resolved with symbolic links followed
WriteLeaf(tree, outside, comps, node) ==
    LET parent == Front(comps)
        name == comps[Len(comps)]
    IN  IF Canonicalize(tree, outside, parent) = "outside"
        THEN [tree |-> tree, outside |-> [outside EXCEPT ![name] = node]]
        ELSE [tree |-> [tree EXCEPT ![comps] = node], outside |-> outside]

\* tar's ensure_dir_created: the missing ancestors of comps become
\* directories, as far as the existing ancestors are directories
RECURSIVE EnsureDirCreated(_, _, _)
EnsureDirCreated(tree, comps, i) ==
    IF i >= Len(comps) THEN tree
    ELSE LET p == SubSeq(comps, 1, i)
         IN  CASE tree[p].kind = "absent" ->
                    EnsureDirCreated([tree EXCEPT ![p] = DirNode], comps, i + 1)
               [] tree[p].kind = "dir" -> EnsureDirCreated(tree, comps, i + 1)
               [] OTHER -> tree

\* the node tar's Entry::unpack leaves at the leaf, ErrNode when the leaf
\* cannot hold the entry
UnpackLeaf(old, entry) ==
    CASE entry.kind = "file" ->
            IF old.kind = "dir" THEN ErrNode ELSE FileNode(entry.data)
      [] entry.kind = "dir" ->
            IF old.kind = "absent" \/ old.kind = "dir" THEN DirNode
            ELSE IF old.kind = "link" /\ old.data = 1 THEN old
            ELSE ErrNode
      [] entry.kind = "link" ->
            IF old.kind = "dir" THEN ErrNode ELSE LinkNode(entry.data)

(***************************************************************************)
(* tar::Entry::unpack_in(dst): skips an entry with a .. component          *)
(* (Ok(false)), strips the root of an absolute path, creates the missing   *)
(* ancestors, fails when the canonical parent is not inside dst            *)
(* (validate_inside_dst), and then unpacks the entry over what is there.   *)
(***************************************************************************)
UnpackIn(tree, outside, entry) ==
    LET comps == entry.comps
        same == [status |-> "err", tree |-> tree, outside |-> outside]
    IN  IF \E i \in 1..Len(comps) : comps[i] = ParentDir
        THEN [same EXCEPT !.status = "skipped"]
        ELSE IF comps \notin AllPaths THEN same
        ELSE
            LET made == EnsureDirCreated(tree, comps, 1)
                parent == Front(comps)
            IN  IF Canonicalize(made, outside, parent) # "inside"
                THEN [same EXCEPT !.tree = made]
                ELSE IF parent # <<>> /\ made[parent].kind # "dir"
                THEN [same EXCEPT !.tree = made]
                ELSE
                    LET leaf == UnpackLeaf(made[comps], entry)
                    IN  IF leaf = ErrNode THEN [same EXCEPT !.tree = made]
                        ELSE LET w == WriteLeaf(made, outside, comps, leaf)
                             IN  [status |-> "ok", tree |-> w.tree,
                                  outside |-> w.outside]

(***************************************************************************)
(* extract_backup_safe (backup.rs:390-479).                                *)
(***************************************************************************)
\* entry_path.is_absolute()
IsAbsolute(entry) == entry.abs

\* the check for .. components left out
HasParentRef_NoCheck(entry) == FALSE

\* the loop over entry_path.components() looking for Component::ParentDir
HasParentRef(entry) ==
    \E i \in 1..Len(entry.comps) : entry.comps[i] = ParentDir

\* full_path.canonicalize(), full_path = target_canonical.join(entry_path): an
\* absolute entry path replaces the target directory in the join
CanonicalizeFullPath(tree, outside, entry) ==
    IF entry.abs THEN CanonFrom(tree, outside, OutsideDir, entry.comps)
    ELSE Canonicalize(tree, outside, entry.comps)

\* full_path.parent() starts with target_canonical, compared component by
\* component (nothing is resolved)
ParentStartsWithTarget(entry) == ~entry.abs /\ entry.comps # <<>>

\* the security checks of one entry: TRUE when the entry is rejected
RejectsEntry(tree, outside, entry) ==
    IF IsAbsolute(entry) THEN TRUE
    ELSE IF HasParentRef(entry) THEN TRUE
    ELSE
        LET canonical == CanonicalizeFullPath(tree, outside, entry)
        IN  CASE canonical = "outside" -> TRUE
              [] canonical = "inside" -> FALSE
              [] canonical = "err" -> ~ParentStartsWithTarget(entry)

\* one turn of the loop over archive.entries()
ExtractEntry ==
    /\ x_status = "running"
    /\ x_index <= Len(x_archive)
    /\ LET entry == x_archive[x_index]
       IN  IF RejectsEntry(x_tree, x_outside, entry)
           THEN /\ x_rejected_count' = x_rejected_count + 1
                /\ x_index' = x_index + 1
                /\ UNCHANGED <<x_tree, x_outside, x_file_count, x_status>>
           ELSE LET r == UnpackIn(x_tree, x_outside, entry)
                IN  /\ x_tree' = r.tree
                    /\ x_outside' = r.outside
                    /\ IF r.status = "err"
                       THEN /\ x_status' = "err"
                            /\ UNCHANGED <<x_index, x_file_count>>
                       ELSE /\ x_file_count' = x_file_count + 1
                            /\ x_index' = x_index + 1
                            /\ UNCHANGED x_status
                    /\ UNCHANGED x_rejected_count
    /\ UNCHANGED x_archive

\* File::open, archive.entries(), entry_result or entry.path() fails
ExtractReadError ==
    /\ x_status = "running"
    /\ x_status' = "err"
    /\ UNCHANGED <<x_archive, x_tree, x_outside, x_index, x_file_count,
                   x_rejected_count>>

\* the archive is exhausted: Ok(())
ExtractDone ==
    /\ x_status = "running"
    /\ x_index > Len(x_archive)
    /\ x_status' = "ok"
    /\ UNCHANGED <<x_archive, x_tree, x_outside, x_index, x_file_count,
                   x_rejected_count>>

\* the entries the archives of SpecExtract are made of
EntryPool ==
    { Entry(FALSE, <<"a">>, "file", 1),
      Entry(FALSE, <<"a", "b">>, "file", 2),
      Entry(FALSE, <<"a">>, "link", 1),
      Entry(FALSE, <<"a">>, "dir", 0),
      Entry(TRUE, <<"b">>, "file", 1),
      Entry(FALSE, <<ParentDir, "b">>, "file", 1) }

\* the target directories extraction starts from
ExtractTrees ==
    { EmptyTree,
      [EmptyTree EXCEPT ![<<"a">>] = LinkNode(1)],
      [EmptyTree EXCEPT ![<<"a">>] = LinkNode(0)],
      [EmptyTree EXCEPT ![<<"a">>] = DirNode, ![<<"a", "b">>] = FileNode(9)] }

ExtractOutsides ==
    { EmptyOutside, [EmptyOutside EXCEPT !["b"] = FileNode(9)] }

ExtractInit ==
    /\ x_archive \in UNION { [1..k -> EntryPool] : k \in 0..MaxEntries }
    /\ x_tree \in ExtractTrees
    /\ x_outside \in ExtractOutsides
    /\ x_index = 1
    /\ x_file_count = 0
    /\ x_rejected_count = 0
    /\ x_status = "running"

\* the extraction is not in use
ExtractIdle ==
    /\ x_archive = <<>>
    /\ x_tree = EmptyTree
    /\ x_outside = EmptyOutside
    /\ x_index = 1
    /\ x_file_count = 0
    /\ x_rejected_count = 0
    /\ x_status = "ok"

(***************************************************************************)
(* C1.  extract_backup_safe never creates or overwrites anything outside   *)
(* the canonical target directory; an entry with an absolute path or a ..  *)
(* component is passed over with rejected_count raised by one, the target  *)
(* directory untouched and the extraction still running; every entry       *)
(* passed over was either rejected or unpacked, so that on Ok(()) the      *)
(* number of unpacked entries is the number of entries minus the rejected  *)
(* ones.                                                                   *)
(***************************************************************************)
C1_Suspicious(entry) ==
    entry.abs \/ \E i \in 1..Len(entry.comps) : entry.comps[i] = ".."

C1_Counts ==
    /\ x_file_count + x_rejected_count = x_index - 1
    /\ x_rejected_count >=
           Cardinality({ i \in 1..(x_index - 1) : C1_Suspicious(x_archive[i]) })
    /\ x_status = "ok" =>
           /\ x_index = Len(x_archive) + 1
           /\ x_file_count = Len(x_archive) - x_rejected_count

C1_Step ==
    /\ x_outside' = x_outside
    /\ ( /\ x_index <= Len(x_archive)
         /\ C1_Suspicious(x_archive[x_index])
         /\ x_index' # x_index )
       => /\ x_index' = x_index + 1
          /\ x_rejected_count' = x_rejected_count + 1
          /\ x_file_count' = x_file_count
          /\ x_tree' = x_tree
          /\ x_status' = "running"

C1_SafeExtract == []C1_Counts /\ [][C1_Step]_vars

\* an extraction that returned Ok(()) after it passed over a rejected .. entry
\* and an absolute one and unpacked an entry below a directory it created
C1_Witness ==
    /\ x_status = "ok"
    /\ \E i \in 1..Len(x_archive) :
          x_archive[i].comps[1] = ".." /\ ~x_archive[i].abs
    /\ \E i \in 1..Len(x_archive) : x_archive[i].abs
    /\ x_rejected_count = 2
    /\ x_file_count = 1
    /\ x_tree[<<"a", "b">>] = FileNode(2)

(***************************************************************************)
(* Power state machine.  control_server (plugins.rs:423-474) maps the      *)
(* request's action string to a PowerAction and awaits                     *)
(* server.handle_power_action; the state machine itself (server/power.rs)  *)
(* is modelled from its specification: Start from Offline goes to Starting *)
(* and, once attached, to Running; Stop from Running goes to Stopping and, *)
(* once the container has exited or was killed after the timeout, to       *)
(* Offline; Restart is Stop then Start under one lock; Kill goes from any  *)
(* state but Offline to Offline.  Every transition publishes StateChange.  *)
(***************************************************************************)
ProcessStates == {"Offline", "Starting", "Running", "Stopping"}

PowerActions == {"Start", "Stop", "Restart", "Kill"}

ActionStrings == {"start", "stop", "restart", "kill", "bogus"}

PowerReqs == 1..MaxPowerReqs

\* the positions at which a request holds the transition lock
PowerInFlight == {"start", "stop", "restart_stop", "restart_offline"}

\* the transitions of the state machine
FsmEdges ==
    { <<"Offline", "Starting">>, <<"Starting", "Running">>,
      <<"Running", "Stopping">>, <<"Stopping", "Offline">>,
      <<"Starting", "Offline">>, <<"Running", "Offline">> }

\* control_server's match on request.action
PowerActionOf(a) ==
    CASE a = "start" -> "Start"
      [] a = "stop" -> "Stop"
      [] a = "restart" -> "Restart"
      [] a = "kill" -> "Kill"
      [] OTHER -> "None"

\* the transition lock taken by every caller, whatever is in flight
PowerLockFree_NoLock == TRUE

\* at most one power action holds the transition lock
PowerLockFree == ~power_lock

\* a transition: the state is written and StateChange is published
SetState(s) ==
    /\ <<process_state, s>> \in FsmEdges
    /\ process_state' = s
    /\ last_state_change' = s

\* the flags that gate Start; the transfer flag is the one the model sets
StartGated(transferring) == transferring

Respond(p, r) ==
    /\ ppc' = [ppc EXCEPT ![p] = "done"]
    /\ pres' = [pres EXCEPT ![p] = r]

\* a request rejected by the state machine
PowerReject(p) ==
    /\ Respond(p, "Conflict")
    /\ UNCHANGED <<process_state, last_state_change, power_lock>>

\* the lock is taken and the action's first transition made
PowerBegin(p, s, pc) ==
    /\ PowerLockFree
    /\ power_lock' = TRUE
    /\ SetState(s)
    /\ ppc' = [ppc EXCEPT ![p] = pc]
    /\ UNCHANGED pres

\* handle_power_action up to its first suspension
HandlePowerAction(p, action) ==
    CASE action = "Start" ->
            IF process_state # "Offline" \/ StartGated(is_transferring)
            THEN PowerReject(p)
            ELSE PowerBegin(p, "Starting", "start")
      [] action = "Stop" ->
            IF process_state = "Offline"
            THEN PowerReject(p)
            ELSE process_state = "Running" /\ PowerBegin(p, "Stopping", "stop")
      [] action = "Restart" ->
            IF process_state = "Offline"
            THEN IF StartGated(is_transferring)
                 THEN PowerReject(p)
                 ELSE PowerBegin(p, "Starting", "start")
            ELSE process_state = "Running"
                 /\ PowerBegin(p, "Stopping", "restart_stop")
      [] action = "Kill" ->
            IF process_state = "Offline"
            THEN PowerReject(p)
            ELSE /\ PowerLockFree
                 /\ SetState("Offline")
                 /\ Respond(p, "Ok")
                 /\ UNCHANGED power_lock

\* control_server up to the await of handle_power_action
ControlServer(p, a) ==
    /\ ppc[p] = "idle"
    /\ pact' = [pact EXCEPT ![p] = PowerActionOf(a)]
    /\ pobs' = [pobs EXCEPT ![p] = process_state]
    /\ IF PowerActionOf(a) = "None"
       THEN /\ Respond(p, "BadRequest")
            /\ UNCHANGED <<process_state, last_state_change, power_lock>>
       ELSE HandlePowerAction(p, PowerActionOf(a))

\* Start: the container is attached
PowerStarted(p) ==
    /\ ppc[p] = "start"
    /\ SetState("Running")
    /\ power_lock' = FALSE
    /\ Respond(p, "Ok")
    /\ UNCHANGED <<pact, pobs>>

\* Stop: the container has exited, or was killed when the timeout passed
PowerStopped(p) ==
    /\ ppc[p] = "stop"
    /\ SetState("Offline")
    /\ power_lock' = FALSE
    /\ Respond(p, "Ok")
    /\ UNCHANGED <<pact, pobs>>

\* Restart: the stop half is over
PowerRestartStopped(p) ==
    /\ ppc[p] = "restart_stop"
    /\ SetState("Offline")
    /\ ppc' = [ppc EXCEPT ![p] = "restart_offline"]
    /\ UNCHANGED <<power_lock, pact, pobs, pres>>

\* Restart: the start half, under the lock taken for the stop half
PowerRestartStart(p) ==
    /\ ppc[p] = "restart_offline"
    /\ IF StartGated(is_transferring)
       THEN /\ power_lock' = FALSE
            /\ Respond(p, "Conflict")
            /\ UNCHANGED <<process_state, last_state_change>>
       ELSE /\ SetState("Starting")
            /\ ppc' = [ppc EXCEPT ![p] = "start"]
            /\ UNCHANGED <<power_lock, pres>>
    /\ UNCHANGED <<pact, pobs>>

\* the response is sent; the slot takes the next request
PowerReturn(p) ==
    /\ ppc[p] = "done"
    /\ ppc' = [ppc EXCEPT ![p] = "idle"]
    /\ pact' = [pact EXCEPT ![p] = "None"]
    /\ pobs' = [pobs EXCEPT ![p] = "None"]
    /\ pres' = [pres EXCEPT ![p] = "None"]
    /\ UNCHANGED <<process_state, last_state_change, power_lock>>

\* the transfer handlers as the state machine sees them: the flag is taken
\* while the server is Offline and given back later
TransferFlagChange ==
    /\ IF is_transferring THEN is_transferring' = FALSE
       ELSE process_state = "Offline" /\ is_transferring' = TRUE
    /\ UNCHANGED powerVars

\* the state machine as the other handlers see it: some transition is made
PowerTransition ==
    /\ \E s \in ProcessStates : SetState(s)
    /\ process_state = "Offline" => ~StartGated(is_transferring)
    /\ UNCHANGED <<power_lock, ppc, pact, pobs, pres>>

PowerInit ==
    /\ process_state = "Offline"
    /\ last_state_change = "None"
    /\ power_lock = FALSE
    /\ ppc = [p \in PowerReqs |-> "idle"]
    /\ pact = [p \in PowerReqs |-> "None"]
    /\ pobs = [p \in PowerReqs |-> "None"]
    /\ pres = [p \in PowerReqs |-> "None"]

(***************************************************************************)
(* Archive files.  A file holds the entries written to it and whether the  *)
(* tar/gzip stream was finished; the bytes of a request body are a file's  *)
(* contents.  Sha256 is taken to be free of collisions.                    *)
(***************************************************************************)
NoFile == [exists |-> FALSE, entries |-> <<>>, complete |-> FALSE]

TarGz(entries) == [exists |-> TRUE, entries |-> entries, complete |-> TRUE]

\* a file whose stream was cut after entries
Partial(entries) == [exists |-> TRUE, entries |-> entries, complete |-> FALSE]

\* calculate_checksum: hex of the sha256 of the file's bytes
Sha256(file) == <<"sha256", file.entries, file.complete>>

\* metadata.len()
FileLen(file) == Len(file.entries) + (IF file.complete THEN 1 ELSE 0)

\* the X-Transfer-Checksum header left out: unwrap_or("")
NoChecksum == <<>>

\* walkdir::WalkDir::new(data_dir).min_depth(1) with filter_entry: the paths
\* below dir, a directory before its contents, the ignored subtrees left out;
\* symbolic links are not followed
RECURSIVE WalkDir(_, _, _, _)
WalkDir(tree, dir, i, ignore) ==
    IF i > Len(NameOrder) THEN <<>>
    ELSE
        LET p == Append(dir, NameOrder[i])
            here == IF p \notin AllPaths THEN <<>>
                    ELSE IF tree[p].kind = "absent" \/ p \in ignore THEN <<>>
                    ELSE IF tree[p].kind = "dir"
                         THEN <<p>> \o WalkDir(tree, p, 1, ignore)
                         ELSE <<p>>
        IN  here \o WalkDir(tree, dir, i + 1, ignore)

\* path.is_file() / path.is_dir(), which follow symbolic links
IsFile(node) == node.kind = "file"

IsDir(node) == node.kind = "dir" \/ (node.kind = "link" /\ node.data = 1)

\* the loop that adds the walked paths to the archive: a file goes in with its
\* contents, a directory as a directory entry, anything else is passed over
ArchiveEntries(tree, ignore) ==
    LET walked == WalkDir(tree, <<>>, 1, ignore)
        kept == SelectSeq(walked, LAMBDA p : IsFile(tree[p]) \/ IsDir(tree[p]))
    IN  [i \in 1..Len(kept) |->
            IF IsFile(tree[kept[i]])
            THEN Entry(FALSE, kept[i], "file", tree[kept[i]].data)
            ELSE Entry(FALSE, kept[i], "dir", 0)]

\* the first n direct children of the directory, in read_dir order, removed
RECURSIVE TruncateDir(_, _, _)
TruncateDir(tree, i, n) ==
    IF i > Len(NameOrder) \/ n = 0 THEN tree
    ELSE IF tree[<<NameOrder[i]>>].kind = "absent"
    THEN TruncateDir(tree, i + 1, n)
    ELSE TruncateDir(RemoveSubtree(tree, <<NameOrder[i]>>), i + 1, n - 1)

\* tar::Archive::unpack(dst): the first n entries unpacked in order, stopping
\* at the first one that fails
RECURSIVE UnpackAll(_, _, _, _)
UnpackAll(tree, entries, i, n) ==
    IF i > Len(entries) \/ i > n THEN [status |-> "ok", tree |-> tree]
    ELSE LET r == UnpackIn(tree, EmptyOutside, entries[i])
         IN  IF r.status = "err" THEN [status |-> "err", tree |-> r.tree]
             ELSE UnpackAll(r.tree, entries, i + 1, n)

(***************************************************************************)
(* Transfer engine (server/transfer.rs).  The I/O environment is an input: *)
(* fault.at names the fallible step that fails, should the call reach it,  *)
(* and fault.n how much of a loop was done before.                         *)
(***************************************************************************)
TransferIds == {"t1"}

TReqs == 1..MaxTransferReqs

Fault(at, n) == [at |-> at, n |-> n]

FaultsAt(points) == { Fault(a, n) : a \in points, n \in 0..MaxFaultPrefix }

CreateFaults == FaultsAt({"none", "mkdir", "create", "write", "finish", "hash", "metadata"})

ReceiveFaults ==
    FaultsAt({"none", "mkdir", "create", "write", "hash", "remove", "truncate",
              "open", "extract", "cleanup"})

\* create_transfer_archive (transfer.rs:72-178): the archive file it leaves
\* and its result
CreateTransferArchive(tree, file, fault) ==
    LET entries == ArchiveEntries(tree, {})
        out(res, f) == [result |-> res, file |-> f]
    IN  CASE fault.at = "mkdir" -> out("Io", file)
          [] fault.at = "create" -> out("Io", file)
          [] fault.at = "write" ->
                out("Archive", Partial(Take(entries, fault.n)))
          [] fault.at = "finish" -> out("Io", Partial(entries))
          [] fault.at = "hash" -> out("Io", TarGz(entries))
          [] fault.at = "metadata" -> out("Io", TarGz(entries))
          [] OTHER -> out("Ok", TarGz(entries))

\* upload_transfer_archive (transfer.rs:181-226)
UploadTransferArchive(file, http_ok) ==
    IF ~file.exists THEN "Io"
    ELSE IF http_ok THEN "Ok" ELSE "Http"

\* the checksum compared before the data directory is touched left out
ChecksumDiffers_NoCheck(actual, expected) == FALSE

\* actual_checksum != expected_checksum
ChecksumDiffers(actual, expected) == actual # expected

\* receive_transfer_archive (transfer.rs:229-296): its result, the data
\* directory and the temporary archive file it leaves
ReceiveTransferArchive(tree, file, body, expected, truncate, fault) ==
    LET out(res, t, f) == [result |-> res, tree |-> t, file |-> f]
        saved == [body EXCEPT !.exists = TRUE]
    IN  IF fault.at \in {"mkdir", "create"} THEN out("Io", tree, file)
        ELSE IF fault.at = "write" THEN out("Io", tree, Partial(<<>>))
        ELSE IF fault.at = "hash" THEN out("Io", tree, saved)
        ELSE IF ChecksumDiffers(Sha256(saved), expected)
        THEN IF fault.at = "remove" THEN out("Io", tree, saved)
             ELSE out("ChecksumMismatch", tree, NoFile)
        ELSE
            LET failing == truncate /\ fault.at = "truncate"
                cut == IF ~truncate THEN tree
                       ELSE IF failing THEN TruncateDir(tree, 1, fault.n)
                       ELSE TruncateDir(tree, 1, Len(NameOrder))
                limit == IF fault.at = "extract" THEN fault.n
                         ELSE Len(saved.entries)
                u == UnpackAll(cut, saved.entries, 1, limit)
            IN  IF failing \/ fault.at = "open" THEN out("Io", cut, saved)
                ELSE IF u.status = "err" \/ fault.at = "extract" \/ ~saved.complete
                THEN out("Archive", u.tree, saved)
                ELSE IF fault.at = "cleanup" THEN out("Io", u.tree, saved)
                ELSE out("Ok", u.tree, NoFile)

\* the transfer events; TransferProgress is left out
TransferStarted == [type |-> "TransferStarted", successful |-> FALSE]

TransferCompleted(successful) == [type |-> "TransferCompleted", successful |-> successful]

\* what create_transfer_archive publishes: TransferStarted, before anything
\* can fail
CreateTransferEvents == <<TransferStarted>>

\* what receive_transfer_archive publishes: TransferCompleted once the
\* archive is extracted and removed, nothing on the paths that return early
ReceiveTransferEvents(result) ==
    IF result = "Ok" THEN <<TransferCompleted(TRUE)>> ELSE <<>>

\* cleanup_transfer_archive (transfer.rs:299-308)
CleanupTransferArchive(files, id) == [files EXCEPT ![id] = NoFile]

(***************************************************************************)
(* Transfer handlers (router/handlers/transfer.rs).  The flag operations   *)
(* of ServerState (server/state.rs) are modelled from their specification: *)
(* try_start_transferring is an atomic test-and-set.                       *)
(***************************************************************************)
NoReq ==
    [kind |-> "none", id |-> "t1", upload |-> FALSE, body |-> NoFile,
     expected |-> NoChecksum]

\* ServerState::try_start_transferring: TRUE when the flag was clear
TryStartTransferring == ~is_transferring

TransferRespond(r, res) ==
    /\ tpc' = [tpc EXCEPT ![r] = "done"]
    /\ tres' = [tres EXCEPT ![r] = res]
    /\ treq' = [treq EXCEPT ![r] = NoReq]

\* the checks both handlers make before they take the lock
TransferGateOpen ==
    /\ ~is_transferring
    /\ process_state = "Offline"
    /\ TryStartTransferring

\* initiate_transfer up to the call of create_transfer_archive
InitiateTransfer(r, id, upload) ==
    /\ tpc[r] = "idle"
    /\ IF TransferGateOpen
       THEN /\ is_transferring' = TRUE
            /\ tpc' = [tpc EXCEPT ![r] = "creating"]
            /\ treq' = [treq EXCEPT ![r] =
                          [NoReq EXCEPT !.kind = "initiate", !.id = id,
                                        !.upload = upload]]
            /\ UNCHANGED tres
       ELSE /\ TransferRespond(r, "Conflict")
            /\ UNCHANGED is_transferring
    /\ UNCHANGED <<data_dir, archives, tev>>

\* set_transferring(false) on the way out left out
ReleaseOnError_Kept(r) == UNCHANGED is_transferring

\* the Err arm of initiate_transfer: server_state().set_transferring(false)
ReleaseOnError(r) == is_transferring' = FALSE

\* initiate_transfer: create_transfer_archive has returned
InitiateCreated(r, fault) ==
    /\ tpc[r] = "creating"
    /\ LET c == CreateTransferArchive(data_dir, archives[treq[r].id], fault)
       IN  /\ archives' = [archives EXCEPT ![treq[r].id] = c.file]
           /\ tev' = [tev EXCEPT ![r] = @ \o CreateTransferEvents]
           /\ IF c.result # "Ok"
              THEN /\ ReleaseOnError(r)
                   /\ TransferRespond(r, c.result)
              ELSE IF treq[r].upload
              THEN /\ tpc' = [tpc EXCEPT ![r] = "uploading"]
                   /\ UNCHANGED <<is_transferring, treq, tres>>
              ELSE /\ is_transferring' = FALSE
                   /\ TransferRespond(r, "Ok")
    /\ UNCHANGED data_dir

\* initiate_transfer: upload_transfer_archive has returned
InitiateUploaded(r, http_ok) ==
    /\ tpc[r] = "uploading"
    /\ archives' = CleanupTransferArchive(archives, treq[r].id)
    /\ is_transferring' = FALSE
    /\ TransferRespond(r, UploadTransferArchive(archives[treq[r].id], http_ok))
    /\ UNCHANGED <<data_dir, tev>>

\* receive_transfer up to the call of receive_transfer_archive
ReceiveTransfer(r, id, body, expected) ==
    /\ tpc[r] = "idle"
    /\ IF TransferGateOpen
       THEN /\ is_transferring' = TRUE
            /\ tpc' = [tpc EXCEPT ![r] = "receiving"]
            /\ treq' = [treq EXCEPT ![r] =
                          [NoReq EXCEPT !.kind = "receive", !.id = id,
                                        !.body = body, !.expected = expected]]
            /\ UNCHANGED tres
       ELSE /\ TransferRespond(r, "Conflict")
            /\ UNCHANGED is_transferring
    /\ UNCHANGED <<data_dir, archives, tev>>

\* receive_transfer: receive_transfer_archive (truncate = true) has returned
ReceiveDone(r, fault) ==
    /\ tpc[r] = "receiving"
    /\ LET got == ReceiveTransferArchive(data_dir, archives[treq[r].id],
                                         treq[r].body, treq[r].expected, TRUE, fault)
       IN  /\ data_dir' = got.tree
           /\ archives' = [archives EXCEPT ![treq[r].id] = got.file]
           /\ tev' = [tev EXCEPT ![r] = @ \o ReceiveTransferEvents(got.result)]
           /\ is_transferring' = FALSE
           /\ TransferRespond(r, got.result)

\* cancel_transfer
CancelTransfer ==
    /\ is_transferring
    /\ is_transferring' = FALSE
    /\ UNCHANGED <<data_dir, archives, tpc, treq, tres, tev>>

\* cancel_transfer while no transfer is in progress: bad request
CancelNothing ==
    /\ ~is_transferring
    /\ UNCHANGED <<transferVars, data_dir>>

\* the response is sent; the slot takes the next request
TransferReturn(r) ==
    /\ tpc[r] = "done"
    /\ tpc' = [tpc EXCEPT ![r] = "idle"]
    /\ tres' = [tres EXCEPT ![r] = "None"]
    /\ tev' = [tev EXCEPT ![r] = <<>>]
    /\ UNCHANGED <<is_transferring, data_dir, archives, treq>>

\* the data directory the server starts with and the tree of another node
ServerTree == [EmptyTree EXCEPT ![<<"a">>] = FileNode(1)]

SourceTree ==
    [EmptyTree EXCEPT ![<<"a">>] = DirNode, ![<<"a", "b">>] = FileNode(2)]

\* request bodies: a whole archive and one cut short
Bodies ==
    { TarGz(ArchiveEntries(SourceTree, {})),
      Partial(Take(ArchiveEntries(SourceTree, {}), 1)) }

Checksums == { Sha256(b) : b \in Bodies } \cup { NoChecksum }

\* no transfer request is being served
TransferIdle ==
    /\ is_transferring = FALSE
    /\ archives = [id \in TransferIds |-> NoFile]
    /\ tpc = [r \in TReqs |-> "idle"]
    /\ treq = [r \in TReqs |-> NoReq]
    /\ tres = [r \in TReqs |-> "None"]
    /\ tev = [r \in TReqs |-> <<>>]

(***************************************************************************)
(* Backups (server/backup.rs).  A file of the backup directory is named by *)
(* the parts of its name between the dots.                                 *)
(***************************************************************************)
BackupIds == {"b1"}

\* format!("{}.tar.gz", backup_uuid)
BackupFileName(uuid) == <<uuid, "tar", "gz">>

\* files of the backup directory that no backup wrote
OtherFileNames == { <<"b1", "gz">>, <<"tar", "gz">> }

BackupFileNames == { BackupFileName(u) : u \in BackupIds } \cup OtherFileNames

BackupFaults ==
    FaultsAt({"none", "mkdir", "join", "create", "write", "finish", "hash", "metadata"})

RestoreFaults == FaultsAt({"none", "truncate", "open", "extract"})

Event(type, uuid, successful, checksum, size) ==
    [type |-> type, uuid |-> uuid, successful |-> successful,
     checksum |-> checksum, size |-> size]

BackupStarted(uuid) == Event("BackupStarted", uuid, FALSE, NoChecksum, 0)

BackupCompleted(uuid, successful, checksum, size) ==
    Event("BackupCompleted", uuid, successful, checksum, size)

BackupRestoreStarted(uuid) == Event("BackupRestoreStarted", uuid, FALSE, NoChecksum, 0)

BackupRestoreCompleted(uuid, successful) ==
    Event("BackupRestoreCompleted", uuid, successful, NoChecksum, 0)

\* the archive file while the tar stream is still open
FileAtChecksum_BeforeFinish(entries) == Partial(entries)

\* the archive file as calculate_checksum and fs::metadata find it: they run
\* after builder.into_inner() and encoder.finish()
FileAtChecksum(entries) == TarGz(entries)

\* create_backup_blocking (backup.rs:237-308)
CreateBackupBlocking(tree, ignore, file, fault) ==
    LET entries == ArchiveEntries(tree, ignore)
        err(f) == [result |-> "Io", file |-> f, checksum |-> NoChecksum, size |-> 0]
    IN  CASE fault.at = "create" -> err(file)
          [] fault.at = "write" -> err(Partial(Take(entries, fault.n)))
          [] fault.at = "finish" -> err(Partial(entries))
          [] fault.at \in {"hash", "metadata"} -> err(TarGz(entries))
          [] OTHER ->
                [result |-> "Ok", file |-> TarGz(entries),
                 checksum |-> Sha256(FileAtChecksum(entries)),
                 size |-> FileLen(FileAtChecksum(entries))]

\* create_backup_with_config (backup.rs:165-232): BackupStarted is out before
\* anything can fail; BackupCompleted follows the blocking task's Ok
CreateBackupWithConfig(uuid, tree, ignore, file, fault) ==
    LET started == <<BackupStarted(uuid)>>
        failed(res, f) ==
            [result |-> res, file |-> f, checksum |-> NoChecksum, size |-> 0,
             events |-> started]
    IN  IF fault.at = "mkdir" THEN failed("Io", file)
        ELSE IF fault.at = "join"
        THEN failed("Other", Partial(Take(ArchiveEntries(tree, ignore), fault.n)))
        ELSE LET b == CreateBackupBlocking(tree, ignore, file, fault)
             IN  IF b.result # "Ok" THEN failed(b.result, b.file)
                 ELSE [result |-> "Ok", file |-> b.file, checksum |-> b.checksum,
                       size |-> b.size,
                       events |-> Append(started,
                                    BackupCompleted(uuid, TRUE, b.checksum, b.size))]

\* the loop of extract_backup_safe over the entries i..n of the archive
RECURSIVE ExtractEntries(_, _, _, _)
ExtractEntries(tree, entries, i, n) ==
    IF i > Len(entries) \/ i > n THEN [status |-> "ok", tree |-> tree]
    ELSE IF RejectsEntry(tree, EmptyOutside, entries[i])
    THEN ExtractEntries(tree, entries, i + 1, n)
    ELSE LET r == UnpackIn(tree, EmptyOutside, entries[i])
         IN  IF r.status = "err" THEN [status |-> "err", tree |-> r.tree]
             ELSE ExtractEntries(r.tree, entries, i + 1, n)

\* extract_backup_safe (backup.rs:390-479) of an archive file
ExtractBackupSafe(tree, file, fault) ==
    IF fault.at = "open" THEN [status |-> "err", tree |-> tree]
    ELSE LET limit == IF fault.at = "extract" THEN fault.n ELSE Len(file.entries)
             r == ExtractEntries(tree, file.entries, 1, limit)
         IN  IF fault.at = "extract" \/ ~file.complete
             THEN [status |-> "err", tree |-> r.tree]
             ELSE r

\* restore_backup (backup.rs:334-382)
RestoreBackup(uuid, tree, file, truncate, fault) ==
    LET started == <<BackupRestoreStarted(uuid)>>
        out(res, t, ev) == [result |-> res, tree |-> t, events |-> ev]
    IN  IF ~file.exists THEN out("NotFound", tree, started)
        ELSE
            LET failing == truncate /\ fault.at = "truncate"
                cut == IF ~truncate THEN tree
                       ELSE IF failing THEN TruncateDir(tree, 1, fault.n)
                       ELSE TruncateDir(tree, 1, Len(NameOrder))
                x == ExtractBackupSafe(cut, file, fault)
            IN  IF failing THEN out("Io", cut, started)
                ELSE IF x.status = "err" THEN out("Io", x.tree, started)
                ELSE out("Ok", x.tree,
                         Append(started, BackupRestoreCompleted(uuid, TRUE)))

\* delete_backup (backup.rs:482-494)
DeleteBackup(file, remove_ok) ==
    IF ~file.exists THEN [result |-> "NotFound", file |-> file]
    ELSE IF ~remove_ok THEN [result |-> "Io", file |-> file]
    ELSE [result |-> "Ok", file |-> NoFile]

\* list_backups (backup.rs:497-544): the files with extension gz whose stem
\* ends in .tar, each under the stem without that suffix
ListBackups(dir) ==
    { [uuid |-> Front(Front(name)), size |-> FileLen(dir[name])] :
        name \in { n \in DOMAIN dir :
                     /\ dir[n].exists
                     /\ Len(n) >= 2 /\ n[Len(n)] = "gz"
                     /\ Len(Front(n)) >= 2 /\ Front(n)[Len(Front(n))] = "tar" } }

(***************************************************************************)
(* Backup handlers (router/handlers/backup.rs).  One request is served at  *)
(* a time; its record stays until the response is out.                     *)
(***************************************************************************)
NoBackupReq ==
    [op |-> "none", uuid |-> "b1", ignore |-> {}, truncate |-> FALSE,
     fault |-> "none"]

NoBackupResult ==
    [status |-> "None", checksum |-> NoChecksum, size |-> 0, list |-> {}]

NotTaken == [valid |-> FALSE, tree |-> EmptyTree]

\* the ignore patterns of a request, each as the paths it matches
IgnoreSets == { {}, {<<"a">>} }

BackupRequest(op, uuid, ignore, truncate, fault) ==
    [op |-> op, uuid |-> uuid, ignore |-> ignore, truncate |-> truncate,
     fault |-> fault.at]

\* handler create_backup
HandleCreateBackup(uuid, ignore, fault) ==
    /\ bpc = "idle"
    /\ LET name == BackupFileName(uuid)
           c == CreateBackupWithConfig(uuid, data_dir, ignore, backup_dir[name], fault)
       IN  /\ backup_dir' = [backup_dir EXCEPT ![name] = c.file]
           /\ taken' = [taken EXCEPT ![uuid] =
                          IF c.result = "Ok" /\ ignore = {}
                          THEN [valid |-> TRUE, tree |-> data_dir]
                          ELSE IF c.result # "Ok" /\ c.file = backup_dir[name]
                          THEN @
                          ELSE NotTaken]
           /\ bevents' = c.events
           /\ bresult' = [NoBackupResult EXCEPT !.status = c.result,
                                                !.checksum = c.checksum,
                                                !.size = c.size]
    /\ breq' = BackupRequest("create", uuid, ignore, FALSE, fault)
    /\ bpc' = "done"
    /\ UNCHANGED data_dir

\* handler restore_backup: a server that is not Offline is turned away
HandleRestoreBackup(uuid, truncate, fault) ==
    /\ bpc = "idle"
    /\ IF process_state # "Offline"
       THEN /\ bevents' = <<>>
            /\ bresult' = [NoBackupResult EXCEPT !.status = "BadRequest"]
            /\ UNCHANGED data_dir
       ELSE LET r == RestoreBackup(uuid, data_dir, backup_dir[BackupFileName(uuid)],
                                   truncate, fault)
            IN  /\ data_dir' = r.tree
                /\ bevents' = r.events
                /\ bresult' = [NoBackupResult EXCEPT !.status = r.result]
    /\ breq' = BackupRequest("restore", uuid, {}, truncate, fault)
    /\ bpc' = "done"
    /\ UNCHANGED <<backup_dir, taken>>

\* handler delete_backup
HandleDeleteBackup(uuid, remove_ok) ==
    /\ bpc = "idle"
    /\ LET name == BackupFileName(uuid)
           d == DeleteBackup(backup_dir[name], remove_ok)
       IN  /\ backup_dir' = [backup_dir EXCEPT ![name] = d.file]
           /\ taken' = [taken EXCEPT ![uuid] = IF d.result = "Ok" THEN NotTaken ELSE @]
           /\ bresult' = [NoBackupResult EXCEPT !.status = d.result]
    /\ breq' = [NoBackupReq EXCEPT !.op = "delete", !.uuid = uuid]
    /\ bevents' = <<>>
    /\ bpc' = "done"
    /\ UNCHANGED data_dir

\* handler list_backups
HandleListBackups ==
    /\ bpc = "idle"
    /\ bresult' = [NoBackupResult EXCEPT !.status = "Ok",
                                         !.list = ListBackups(backup_dir)]
    /\ breq' = [NoBackupReq EXCEPT !.op = "list"]
    /\ bevents' = <<>>
    /\ bpc' = "done"
    /\ UNCHANGED <<data_dir, backup_dir, taken>>

\* the response is out
BackupReturn ==
    /\ bpc = "done"
    /\ bpc' = "idle"
    /\ breq' = NoBackupReq
    /\ bevents' = <<>>
    /\ bresult' = NoBackupResult
    /\ UNCHANGED <<data_dir, backup_dir, taken>>

\* what the game server and its owner write into the data directory
EnvPaths == { <<"a">>, <<"a", "b">> }

EnvNodes == { Absent, FileNode(1), FileNode(2), DirNode, LinkNode(0) }

\* a write to the data directory between two requests
EnvWrite(p, node) ==
    /\ bpc = "idle"
    /\ IF Len(p) = 1 THEN TRUE ELSE data_dir[Front(p)].kind = "dir"
    /\ data_dir' = [RemoveSubtree(data_dir, p) EXCEPT ![p] = node]
    /\ UNCHANGED backupVars

\* no backup request is being served
BackupIdle ==
    /\ backup_dir = [n \in BackupFileNames |->
                        IF n \in OtherFileNames THEN TarGz(<<>>) ELSE NoFile]
    /\ taken = [u \in BackupIds |-> NotTaken]
    /\ bpc = "idle"
    /\ breq = NoBackupReq
    /\ bevents = <<>>
    /\ bresult = NoBackupResult

(***************************************************************************)
(* SinkPool (system/sink.rs).  The broadcast channel is tokio's: a value   *)
(* sent is kept for every receiver until the channel has taken capacity    *)
(* newer values; a receiver that has fallen further behind gets Lagged on  *)
(* its next recv and goes on from the oldest value kept.  send fails only  *)
(* when the channel has no receiver at all.                                *)
(***************************************************************************)
\* DEFAULT_BUFFER_SIZE and DEFAULT_CHANNEL_CAPACITY, scaled down
BufferSize == 2

ChannelCapacity == 2

Producers == 1..MaxProducers

Subscribers == 1..MaxSubscribers

\* timestamps a caller of push_with_timestamp hands in
Timestamps == {1, 2}

NotSubscribed == -1

LogEntry(data, timestamp) == [data |-> data, timestamp |-> timestamp]

\* the ring never trimmed
RingFull_Never(buffer) == FALSE

\* buffer.len() >= self.buffer_size
RingFull(buffer) == Len(buffer) >= BufferSize

\* the ring after push_with_timestamp's block under the write lock
RingPush(buffer, entry) ==
    Append(IF RingFull(buffer) /\ buffer # <<>> THEN Tail(buffer) ELSE buffer, entry)

\* sender.receiver_count(): the _receiver every handle keeps, and the
\* receivers handed out by subscribe
ReceiverCount ==
    MaxProducers + Cardinality({ u \in Subscribers : s_next[u] # NotSubscribed })

\* sender.send(data) returns Err(SendError): no receiver is left
SendFails == ReceiverCount = 0

\* the entry goes into the ring, under the write lock
AppendEntry(p, timestamp) ==
    /\ s_count' = s_count + 1
    /\ s_buffer' = RingPush(s_buffer, LogEntry(s_count + 1, timestamp))
    /\ s_pushed' = Append(s_pushed, LogEntry(s_count + 1, timestamp))
    /\ s_pending' = [s_pending EXCEPT ![p] = s_count + 1]
    /\ s_ppc' = [s_ppc EXCEPT ![p] = "appended"]
    /\ s_pushers' = s_pushers \cup {p}
    /\ UNCHANGED <<s_dropped, s_sent, s_next, s_since, s_recv, s_lagged>>

\* push_with_timestamp, first half: the entry goes into the ring
PushAppend(p, timestamp) ==
    /\ s_ppc[p] = "idle"
    /\ s_count < MaxPushes
    /\ AppendEntry(p, timestamp)

\* push_with_timestamp, second half: the data goes to the channel, and the
\* call returns
PushSend(p) ==
    /\ s_ppc[p] = "appended"
    /\ IF SendFails
       THEN /\ s_dropped' = s_dropped + 1
            /\ UNCHANGED s_sent
       ELSE /\ s_sent' = Append(s_sent, s_pending[p])
            /\ UNCHANGED s_dropped
    /\ s_ppc' = [s_ppc EXCEPT ![p] = "idle"]
    /\ s_pending' = [s_pending EXCEPT ![p] = 0]
    /\ UNCHANGED <<s_buffer, s_next, s_since, s_recv, s_lagged, s_pushed,
                   s_count, s_pushers>>

\* clear_buffer
ClearBuffer ==
    /\ s_buffer' = <<>>
    /\ s_pushed' = <<>>
    /\ UNCHANGED <<s_dropped, s_sent, s_next, s_since, s_recv, s_lagged, s_ppc,
                   s_pending, s_count, s_pushers>>

\* a new receiver that starts at the oldest value the channel retains
SubscribeAt_Start ==
    IF Len(s_sent) > ChannelCapacity THEN Len(s_sent) - ChannelCapacity ELSE Len(<<>>)

\* sender.subscribe(): the new receiver starts behind the last value sent
SubscribeAt == Len(s_sent)

\* subscribe
Subscribe(u) ==
    /\ s_next[u] = NotSubscribed
    /\ s_next' = [s_next EXCEPT ![u] = SubscribeAt]
    /\ s_since' = [s_since EXCEPT ![u] = Len(s_sent)]
    /\ s_recv' = [s_recv EXCEPT ![u] = <<>>]
    /\ s_lagged' = [s_lagged EXCEPT ![u] = FALSE]
    /\ UNCHANGED <<s_buffer, s_dropped, s_sent, s_ppc, s_pending, s_pushed,
                   s_count, s_pushers>>

\* the receiver is dropped
Unsubscribe(u) ==
    /\ s_next[u] # NotSubscribed
    /\ s_next' = [s_next EXCEPT ![u] = NotSubscribed]
    /\ s_since' = [s_since EXCEPT ![u] = 0]
    /\ s_recv' = [s_recv EXCEPT ![u] = <<>>]
    /\ s_lagged' = [s_lagged EXCEPT ![u] = FALSE]
    /\ UNCHANGED <<s_buffer, s_dropped, s_sent, s_ppc, s_pending, s_pushed,
                   s_count, s_pushers>>

\* the receiver has fallen behind the values the channel still keeps
Lags(u) == s_next[u] # NotSubscribed /\ Len(s_sent) - s_next[u] > ChannelCapacity

\* rx.recv() with a value or a lag to report
Recv(u) ==
    /\ s_next[u] # NotSubscribed
    /\ s_next[u] < Len(s_sent)
    /\ IF Lags(u)
       THEN /\ s_next' = [s_next EXCEPT ![u] = Len(s_sent) - ChannelCapacity]
            /\ s_lagged' = [s_lagged EXCEPT ![u] = TRUE]
            /\ UNCHANGED s_recv
       ELSE /\ s_next' = [s_next EXCEPT ![u] = @ + 1]
            /\ s_recv' = [s_recv EXCEPT ![u] = Append(@, s_sent[s_next[u] + 1])]
            /\ UNCHANGED s_lagged
    /\ UNCHANGED <<s_buffer, s_dropped, s_sent, s_since, s_ppc, s_pending,
                   s_pushed, s_count, s_pushers>>

\* SinkPool::new and its clones, nothing pushed yet
SinkInit ==
    /\ s_buffer = <<>>
    /\ s_dropped = 0
    /\ s_sent = <<>>
    /\ s_next = [u \in Subscribers |-> NotSubscribed]
    /\ s_since = [u \in Subscribers |-> 0]
    /\ s_recv = [u \in Subscribers |-> <<>>]
    /\ s_lagged = [u \in Subscribers |-> FALSE]
    /\ s_ppc = [p \in Producers |-> "idle"]
    /\ s_pending = [p \in Producers |-> 0]
    /\ s_pushed = <<>>
    /\ s_count = 0
    /\ s_pushers = {}

(***************************************************************************)
(* TokenBucket (system/rate_limiter.rs).  The bucket is Clone and its      *)
(* clones share the two atomics, so a call is modelled as the sequence of  *)
(* its atomic loads and stores, and calls through different clones         *)
(* interleave.  A u64 that fetch_sub has wrapped below zero is written as  *)
(* the negative number v that stands for 2^64 + v.                         *)
(***************************************************************************)
\* TokenBucket::new(capacity, rate_per_second)
Capacity == 2
Rate == 1
\* refill_interval_ms
RefillIntervalMs == 1000
\* reading of the clock when the bucket is made
StartMs == 1000
\* what the clock is seen to advance by between two steps, in milliseconds
TickSteps == {1, RefillIntervalMs - 1, RefillIntervalMs}

Callers == 1..MaxCallers

CallKinds == {"try_acquire", "available_tokens"}

Min(a, b) == IF a <= b THEN a ELSE b

\* u64::saturating_sub
SaturatingSub(a, b) == IF a >= b THEN a - b ELSE 0

\* a u64 that wrapped below zero
IsWrapped(v) == v < 0

\* current >= tokens_needed on u64, tokens_needed being small
U64Geq(current, needed) == IsWrapped(current) \/ current >= needed

\* current + tokens_to_add leaves the u64 range
AddOverflows(current, add) == IsWrapped(current) /\ current + add >= 0

\* min(current + tokens_to_add, max_tokens) where the sum does not overflow,
\* and where it wraps (overflow checks off)
CappedSum(current, add) ==
    IF IsWrapped(current) /\ ~AddOverflows(current, add)
    THEN Capacity
    ELSE Min(current + add, Capacity)

NoCall == [kind |-> "none", needed |-> 0, now |-> 0, add |-> 0, current |-> 0]

BucketCallsInFlight == { c \in Callers : b_pc[c] # "idle" }

\* entry of try_acquire(tokens_needed) or available_tokens()
BucketCall(c, kind, needed) ==
    /\ b_pc[c] = "idle"
    /\ b_calls < MaxCalls
    /\ kind = "available_tokens" => needed = 1
    /\ b_pc' = [b_pc EXCEPT ![c] = "refill"]
    /\ b_call' = [b_call EXCEPT ![c] = [NoCall EXCEPT !.kind = kind, !.needed = needed]]
    /\ b_res' = [b_res EXCEPT ![c] = "none"]
    /\ b_overlap' = (b_overlap \/ BucketCallsInFlight # {})
    /\ b_calls' = b_calls + 1
    /\ UNCHANGED <<b_tokens, b_last, b_now, b_log, b_ticks>>

\* refill: read the clock and last_refill, decide whether an interval passed
RefillCheck(c) ==
    /\ b_pc[c] = "refill"
    /\ IF SaturatingSub(b_now, b_last) >= RefillIntervalMs
       THEN /\ b_call' = [b_call EXCEPT ![c].now = b_now,
                              ![c].add = ((b_now - b_last) \div RefillIntervalMs) * Rate]
            /\ b_pc' = [b_pc EXCEPT ![c] = "store_last"]
       ELSE /\ b_pc' = [b_pc EXCEPT ![c] = "load"]
            /\ UNCHANGED b_call
    /\ UNCHANGED <<b_tokens, b_last, b_now, b_res, b_log, b_overlap, b_calls, b_ticks>>

\* refill: last_refill.store(now)
RefillStoreLast(c) ==
    /\ b_pc[c] = "store_last"
    /\ b_last' = b_call[c].now
    /\ b_pc' = [b_pc EXCEPT ![c] = "refill_load"]
    /\ UNCHANGED <<b_tokens, b_now, b_call, b_res, b_log, b_overlap, b_calls, b_ticks>>

\* refill: tokens.load
RefillLoad(c) ==
    /\ b_pc[c] = "refill_load"
    /\ b_call' = [b_call EXCEPT ![c].current = b_tokens]
    /\ b_pc' = [b_pc EXCEPT ![c] = "refill_store"]
    /\ UNCHANGED <<b_tokens, b_last, b_now, b_res, b_log, b_overlap, b_calls, b_ticks>>

\* refill: tokens.store(min(current + tokens_to_add, max_tokens)); an
\* overflowing sum panics where overflow checks are on and wraps where not
RefillStore(c, checked) ==
    /\ b_pc[c] = "refill_store"
    /\ IF checked /\ AddOverflows(b_call[c].current, b_call[c].add)
       THEN /\ b_pc' = [b_pc EXCEPT ![c] = "idle"]
            /\ b_res' = [b_res EXCEPT ![c] = "panic"]
            /\ b_call' = [b_call EXCEPT ![c] = NoCall]
            /\ UNCHANGED b_tokens
       ELSE /\ b_tokens' = CappedSum(b_call[c].current, b_call[c].add)
            /\ b_pc' = [b_pc EXCEPT ![c] = "load"]
            /\ UNCHANGED <<b_res, b_call>>
    /\ UNCHANGED <<b_last, b_now, b_log, b_overlap, b_calls, b_ticks>>

\* current >= tokens_needed
Enough(current, needed) == U64Geq(current, needed)

\* tokens.load, then the test of try_acquire or the return of
\* available_tokens
AcquireLoad(c) ==
    /\ b_pc[c] = "load"
    /\ IF b_call[c].kind = "try_acquire" /\ Enough(b_tokens, b_call[c].needed)
       THEN /\ b_pc' = [b_pc EXCEPT ![c] = "sub"]
            /\ b_call' = [b_call EXCEPT ![c].current = b_tokens]
            /\ UNCHANGED b_res
       ELSE /\ b_pc' = [b_pc EXCEPT ![c] = "idle"]
            /\ b_res' = [b_res EXCEPT ![c] =
                            IF b_call[c].kind = "try_acquire" THEN "false" ELSE "tokens"]
            /\ b_call' = [b_call EXCEPT ![c] = NoCall]
    /\ UNCHANGED <<b_tokens, b_last, b_now, b_log, b_overlap, b_calls, b_ticks>>

\* tokens.fetch_sub(tokens_needed), which wraps; return true
AcquireSub(c) ==
    /\ b_pc[c] = "sub"
    /\ b_tokens' = b_tokens - b_call[c].needed
    /\ b_pc' = [b_pc EXCEPT ![c] = "idle"]
    /\ b_res' = [b_res EXCEPT ![c] = "true"]
    /\ b_log' = Append(b_log, [at |-> b_now, needed |-> b_call[c].needed])
    /\ b_call' = [b_call EXCEPT ![c] = NoCall]
    /\ UNCHANGED <<b_last, b_now, b_overlap, b_calls, b_ticks>>

\* current_time_ms() moves on
Tick(d) ==
    /\ b_ticks < MaxTicks
    /\ b_now' = b_now + d
    /\ b_ticks' = b_ticks + 1
    /\ UNCHANGED <<b_tokens, b_last, b_pc, b_call, b_res, b_log, b_overlap, b_calls>>

\* TokenBucket::new at clock reading b_now
BucketInit ==
    /\ b_tokens = Capacity
    /\ b_now = StartMs
    /\ b_last = b_now
    /\ b_pc = [c \in Callers |-> "idle"]
    /\ b_call = [c \in Callers |-> NoCall]
    /\ b_res = [c \in Callers |-> "none"]
    /\ b_log = <<>>
    /\ b_overlap = FALSE
    /\ b_calls = 0
    /\ b_ticks = 0

(***************************************************************************)
(* DirectoryCache (filesystem/cache.rs).  Every operation runs under the   *)
(* cache's lock, so each is one step.  Instants are clock readings; two    *)
(* operations may read the same one.                                       *)
(***************************************************************************)
\* DirectoryCache::with_config(ttl, max_entries)
Ttl == 2
MaxCacheEntries == 2

\* the directories listed: "/", "/a", "/a/b", "/c"
CachePaths == {<<>>, <<"a">>, <<"a", "b">>, <<"c">>}

\* the listings stored, Vec<CachedFileInfo>
Listings == {"listing1", "listing2"}

NotCached == [cached |-> FALSE]

CachedListing(entries, cached_at) ==
    [cached |-> TRUE, entries |-> entries, cached_at |-> cached_at]

None == [some |-> FALSE]

Some(v) == [some |-> TRUE, value |-> v]

CachedPaths(cache) == { q \in CachePaths : cache[q].cached }

\* Path::parent
PathParent(p) == IF p = <<>> THEN None ELSE Some(SubSeq(p, 1, Len(p) - 1))

\* an entry that never expires
Fresh_Always(listing) == TRUE

\* listing.cached_at.elapsed() < self.ttl
Fresh(listing) == dc_now - listing.cached_at < Ttl

CacheNoOp == [op |-> "none"]

\* DirectoryCache::get
CacheGet(p) ==
    /\ dc_seq < MaxCacheOps
    /\ dc_got' = IF dc_cache[p].cached /\ Fresh(dc_cache[p])
                 THEN Some(dc_cache[p].entries)
                 ELSE None
    /\ dc_op' = [op |-> "get", path |-> p]
    /\ dc_seq' = dc_seq + 1
    /\ UNCHANGED <<dc_cache, dc_now>>

\* a cache that is never found full
CacheFull_Never(cache) == FALSE

\* cache.len() >= self.max_entries
CacheFull(cache) == Cardinality(CachedPaths(cache)) >= MaxCacheEntries

\* the candidates of min_by_key(cached_at): with equal keys, whichever the
\* map's iteration meets first
Oldest(cache) ==
    { q \in CachedPaths(cache) :
        \A o \in CachedPaths(cache) : cache[q].cached_at <= cache[o].cached_at }

\* DirectoryCache::put
CachePut(p, entries) ==
    /\ dc_seq < MaxCacheOps
    /\ \E evict \in IF CacheFull(dc_cache) /\ Oldest(dc_cache) # {}
                    THEN Oldest(dc_cache) ELSE {p} :
          dc_cache' = [[dc_cache EXCEPT ![evict] = NotCached]
                          EXCEPT ![p] = CachedListing(entries, dc_now)]
    /\ dc_op' = [op |-> "put", path |-> p]
    /\ dc_seq' = dc_seq + 1
    /\ UNCHANGED <<dc_got, dc_now>>

\* DirectoryCache::invalidate
CacheInvalidate(p) ==
    /\ dc_seq < MaxCacheOps
    /\ dc_cache' = [q \in CachePaths |->
                       IF q = p \/ Some(q) = PathParent(p) THEN NotCached ELSE dc_cache[q]]
    /\ dc_op' = [op |-> "invalidate", path |-> p]
    /\ dc_seq' = dc_seq + 1
    /\ UNCHANGED <<dc_got, dc_now>>

\* DirectoryCache::clear
CacheClear ==
    /\ dc_seq < MaxCacheOps
    /\ dc_cache' = [q \in CachePaths |-> NotCached]
    /\ dc_op' = [op |-> "clear"]
    /\ dc_seq' = dc_seq + 1
    /\ UNCHANGED <<dc_got, dc_now>>

\* Instant::now() moves on
CacheTick ==
    /\ dc_now < MaxCacheNow
    /\ dc_now' = dc_now + 1
    /\ UNCHANGED <<dc_cache, dc_got, dc_op, dc_seq>>

\* DirectoryCache::with_config
CacheInit ==
    /\ dc_cache = [q \in CachePaths |-> NotCached]
    /\ dc_now = 0
    /\ dc_got = None
    /\ dc_op = CacheNoOp
    /\ dc_seq = 0

(***************************************************************************)
(* StatsBuffer (stats_buffer.rs), over its in-memory map or over a Redis   *)
(* sorted set per server.  The memory backend works under its lock; each   *)
(* Redis call sequence of one operation is taken as one step.              *)
(***************************************************************************)
\* BUFFER_DURATION in milliseconds, and REDIS_TTL (seconds) in milliseconds
BufferDurationMs == 180000
RedisTtlMs == 180000
\* MAX_BUFFER_SIZE, scaled down
MaxBufferSize == 2
\* reading of the clock when the buffer is made
StatsStartMs == 200000
\* what the clock is seen to advance by, in milliseconds
StatsTickSteps == {1, BufferDurationMs}

Uuids == {"s1", "s2"}

StatsValues == {"stats1", "stats2"}

StatsEntry(stats, timestamp) == [stats |-> stats, timestamp |-> timestamp]

\* the pop_front loops of push
RECURSIVE TrimOld(_, _)
TrimOld(buffer, cutoff) ==
    IF buffer # <<>> /\ buffer[1].timestamp < cutoff
    THEN TrimOld(Tail(buffer), cutoff)
    ELSE buffer

RECURSIVE TrimSize(_)
TrimSize(buffer) ==
    IF Len(buffer) > MaxBufferSize THEN TrimSize(Tail(buffer)) ELSE buffer

\* the members of a key that has not expired
RedisLive(u) == IF sb_now >= sb_expire[u] THEN {} ELSE sb_zset[u]

\* a sorted set in ascending score, equal scores by member
ByScore(zset) ==
    CHOOSE seq \in [1..Cardinality(zset) -> zset] :
        /\ \A i, j \in 1..Cardinality(zset) : i # j => seq[i] # seq[j]
        /\ \A i, j \in 1..Cardinality(zset) :
              i < j => \/ seq[i].timestamp < seq[j].timestamp
                       \/ /\ seq[i].timestamp = seq[j].timestamp
                          /\ seq[i].stats = "stats1"

\* StatsBuffer::new: Redis if a url is given and the connection test passes
StatsNew(redis_ok) ==
    /\ sb_backend = "none"
    /\ sb_backend' = IF redis_ok THEN "Redis" ELSE "Memory"
    /\ UNCHANGED <<sb_mem, sb_zset, sb_expire, sb_now, sb_hist, sb_op, sb_seq, sb_ticks>>

\* StatsBuffer::push
StatsPush(u, stats, conn_ok) ==
    /\ sb_backend # "none"
    /\ sb_seq < MaxStatsOps
    /\ LET entry == StatsEntry(stats, sb_now)
           cutoff == sb_now - BufferDurationMs
       IN  IF sb_backend = "Redis"
           THEN /\ IF conn_ok
                   THEN /\ sb_zset' = [sb_zset EXCEPT ![u] =
                               { e \in RedisLive(u) \cup {entry} : e.timestamp > cutoff }]
                        /\ sb_expire' = [sb_expire EXCEPT ![u] = sb_now + RedisTtlMs]
                   ELSE UNCHANGED <<sb_zset, sb_expire>>
                /\ UNCHANGED sb_mem
           ELSE /\ sb_mem' = [sb_mem EXCEPT ![u] =
                       TrimSize(TrimOld(Append(sb_mem[u], entry), cutoff))]
                /\ UNCHANGED <<sb_zset, sb_expire>>
    /\ sb_op' = [op |-> "push", uuid |-> u]
    /\ sb_seq' = sb_seq + 1
    /\ UNCHANGED <<sb_backend, sb_now, sb_hist, sb_ticks>>

\* the entries get_history reads from the memory backend
MemoryHistory(u) == sb_mem[u]

\* StatsBuffer::get_history
StatsGetHistory(u, conn_ok) ==
    /\ sb_backend # "none"
    /\ sb_seq < MaxStatsOps
    /\ sb_hist' =
          IF sb_backend = "Redis"
          THEN IF conn_ok
               THEN ByScore({ e \in RedisLive(u) :
                                e.timestamp >= sb_now - BufferDurationMs })
               ELSE <<>>
          ELSE MemoryHistory(u)
    /\ sb_op' = [op |-> "get_history", uuid |-> u]
    /\ sb_seq' = sb_seq + 1
    /\ UNCHANGED <<sb_backend, sb_mem, sb_zset, sb_expire, sb_now, sb_ticks>>

\* StatsBuffer::clear
StatsClear(u, conn_ok) ==
    /\ sb_backend # "none"
    /\ sb_seq < MaxStatsOps
    /\ IF sb_backend = "Redis"
       THEN /\ sb_zset' = IF conn_ok THEN [sb_zset EXCEPT ![u] = {}] ELSE sb_zset
            /\ UNCHANGED sb_mem
       ELSE /\ sb_mem' = [sb_mem EXCEPT ![u] = <<>>]
            /\ UNCHANGED sb_zset
    /\ sb_op' = [op |-> "clear", uuid |-> u]
    /\ sb_seq' = sb_seq + 1
    /\ UNCHANGED <<sb_backend, sb_expire, sb_now, sb_hist, sb_ticks>>

\* SystemTime::now() moves on
StatsTick(d) ==
    /\ sb_ticks < MaxStatsTicks
    /\ sb_now' = sb_now + d
    /\ sb_ticks' = sb_ticks + 1
    /\ UNCHANGED <<sb_backend, sb_mem, sb_zset, sb_expire, sb_hist, sb_op, sb_seq>>

\* before StatsBuffer::new
StatsInit ==
    /\ sb_backend = "none"
    /\ sb_mem = [u \in Uuids |-> <<>>]
    /\ sb_zset = [u \in Uuids |-> {}]
    /\ sb_expire = [u \in Uuids |-> 0]
    /\ sb_now = StatsStartMs
    /\ sb_hist = <<>>
    /\ sb_op = [op |-> "none"]
    /\ sb_seq = 0
    /\ sb_ticks = 0

(***************************************************************************)
(* The schedule executor (router/handlers/schedules.rs).  A Schedule and   *)
(* its ScheduleTasks arrive as JSON; the executor's awaits are the steps.  *)
(* The event bus is the broadcast channel of the spec's event fabric:      *)
(* bounded, and a receiver that falls behind loses the oldest events and   *)
(* is told so by an error on its next recv.                                *)
(***************************************************************************)
\* events the bus keeps for a receiver, scaled down
EventCapacity == 2

PowerTaskActions == {"power_start", "power_stop", "power_restart"}

TaskActions == {"command", "backup", "unknown_action"} \cup PowerTaskActions

TriggerModes == {"TIME_DELAY", "ON_COMPLETION", "unknown_mode"}

\* ScheduleTask {id, action, time_offset, sequence, trigger_mode}
ScheduleTask(id, action, time_offset, sequence, trigger_mode) ==
    [id |-> id, action |-> action, time_offset |-> time_offset,
     sequence |-> sequence, trigger_mode |-> trigger_mode]

\* the task lists a schedule may carry: ids in list order, every sequence
\* number used once, in any order; time_offset varies where it is read
TaskLists ==
    UNION { { tasks \in [1..n -> [id : 1..n, action : TaskActions, time_offset : {0, 1},
                                  sequence : 1..n, trigger_mode : TriggerModes]] :
                /\ \A i \in 1..n : tasks[i].id = i
                /\ \A i \in 1..n :
                      tasks[i].trigger_mode # "TIME_DELAY" => tasks[i].time_offset = 0
                /\ \A i \in 1..n :
                      tasks[i].trigger_mode = "unknown_mode" => tasks[i].action = "command"
                /\ \A i, j \in 1..n : i # j => tasks[i].sequence # tasks[j].sequence }
            : n \in 1..MaxTasks }

\* Event::ScheduleExecuting {task_index}
ScheduleExecuting(task_index) == [event |-> "ScheduleExecuting", task_index |-> task_index]

\* Event::BackupCompleted {uuid, successful}
BackupCompletedEvent(uuid, successful) ==
    [event |-> "BackupCompleted", uuid |-> uuid, successful |-> successful]

\* Event::StateChange(state)
StateChange(state) == [event |-> "StateChange", state |-> state]

\* the uuid of a backup made by someone else than the executor
OtherBackup == 0

\* what the rest of the daemon publishes on the server's bus
OtherEvents ==
    {BackupCompletedEvent(OtherBackup, TRUE), BackupCompletedEvent(OtherBackup, FALSE),
     StateChange("Running"), StateChange("Offline"), [event |-> "ConsoleOutput"]}

NoIndex == None

\* schedule.tasks.iter().enumerate(): the order in which the loop takes the
\* tasks
TaskOrder(tasks) == [i \in 1..Len(tasks) |-> i]

CurrentTask == sc_tasks[TaskOrder(sc_tasks)[sc_index]]

\* the uuid execute_task makes for the backup of the current task
OwnBackup == CurrentTask.id

\* event_rx exists: from subscribe to the return of
\* execute_task_and_wait_completion
Subscribed ==
    /\ sc_pc \in {"executing", "waiting"}
    /\ CurrentTask.trigger_mode = "ON_COMPLETION"

\* the receiver's queue after one more event
Deliver(rx, e) ==
    IF Len(rx) >= EventCapacity THEN Append(Tail(rx), e) ELSE Append(rx, e)

Overflows(rx) == Len(rx) >= EventCapacity

\* the tracker holds no entry for the schedule
NoStatus == [exists |-> FALSE]

\* a ScheduleStatus as update_status stores it, never run so far
NewStatus ==
    [exists |-> TRUE, is_executing |-> FALSE, executing_task_index |-> None,
     last_result |-> None]

\* ScheduleStatusTracker::set_executing
SetExecuting(status, task_index) ==
    IF status.exists
    THEN [status EXCEPT !.is_executing = TRUE, !.executing_task_index = Some(task_index)]
    ELSE status

\* ScheduleStatusTracker::set_finished
SetFinished(status, successful) ==
    IF status.exists
    THEN [status EXCEPT !.is_executing = FALSE, !.executing_task_index = None,
                        !.last_result = Some(IF successful THEN "success" ELSE "failed")]
    ELSE status

\* execute_schedule_tasks entry: publish ScheduleExecuting {None}
ScheduleBegin(tasks) ==
    /\ sc_pc = "idle"
    /\ sc_tasks' = tasks
    /\ sc_index' = 1
    /\ sc_pc' = "next"
    /\ sc_events' = <<ScheduleExecuting(NoIndex)>>
    /\ sc_notify' = <<>>
    /\ sc_log' = <<>>
    /\ sc_result' = "none"
    /\ UNCHANGED <<sc_rx, sc_lagged, sc_pub, sc_status>>

\* a failure that is logged and passed over
NonFatal_Never(task) == FALSE

\* task.action == "command"
NonFatal(task) == task.action = "command"

\* leave the loop body: on to the next iteration, or return Err for a
\* failure that is not passed over
TaskDone(outcome, reported) ==
    /\ sc_log' = Append(sc_log, [step |-> "finished", task |-> CurrentTask.id,
                                 outcome |-> outcome, reported |-> reported])
    /\ sc_rx' = <<>>
    /\ sc_lagged' = FALSE
    /\ sc_pub' = 0
    /\ IF outcome \in {"ok", "matched"} \/ (outcome # "rejected" /\ NonFatal(CurrentTask))
       THEN /\ sc_index' = sc_index + 1
            /\ sc_pc' = "next"
            /\ UNCHANGED sc_result
       ELSE /\ sc_pc' = "returned"
            /\ sc_result' = "Err"
            /\ UNCHANGED sc_index

NotReported == "none"

\* top of the loop body: publish the task index, set_executing, notify the
\* API, then dispatch on the trigger mode, an unknown one returning Err;
\* ON_COMPLETION subscribes to the bus before execute_task
TaskBegin ==
    /\ sc_pc = "next"
    /\ sc_index <= Len(sc_tasks)
    /\ sc_events' = Append(sc_events, ScheduleExecuting(Some(TaskOrder(sc_tasks)[sc_index] - 1)))
    /\ sc_notify' = Append(sc_notify, Some(TaskOrder(sc_tasks)[sc_index] - 1))
    /\ sc_log' = Append(sc_log, [step |-> "started", task |-> CurrentTask.id,
                                 outcome |-> "none", reported |-> NotReported])
    /\ sc_pc' = CASE CurrentTask.trigger_mode = "TIME_DELAY" /\ CurrentTask.time_offset > 0
                        -> "sleeping"
                  [] CurrentTask.trigger_mode = "unknown_mode" -> "rejected"
                  [] OTHER -> "executing"
    /\ sc_status' = SetExecuting(sc_status, TaskOrder(sc_tasks)[sc_index] - 1)
    /\ UNCHANGED <<sc_tasks, sc_index, sc_result, sc_rx, sc_lagged, sc_pub>>

\* return Err("Unknown trigger mode")
TaskRejected ==
    /\ sc_pc = "rejected"
    /\ TaskDone("rejected", NotReported)
    /\ UNCHANGED <<sc_tasks, sc_events, sc_notify, sc_status>>

\* tokio::time::sleep(time_offset) returns
TaskSlept ==
    /\ sc_pc = "sleeping"
    /\ sc_pc' = "executing"
    /\ UNCHANGED <<sc_tasks, sc_index, sc_events, sc_notify, sc_log, sc_result,
                   sc_rx, sc_lagged, sc_pub, sc_status>>

\* another publisher puts an event on the bus while the task holds its
\* receiver
BusPublish(e) ==
    /\ Subscribed
    /\ sc_pub < MaxPublishes
    /\ sc_rx' = Deliver(sc_rx, e)
    /\ sc_lagged' = (sc_lagged \/ Overflows(sc_rx))
    /\ sc_pub' = sc_pub + 1
    /\ UNCHANGED <<sc_tasks, sc_index, sc_pc, sc_events, sc_notify, sc_log, sc_result,
                   sc_status>>

\* the actions whose completion ON_COMPLETION waits for
Waitable == {"backup"} \cup PowerTaskActions

\* execute_task returns: an unknown action is an Err; a successful backup
\* has published its BackupCompleted; an ON_COMPLETION backup or power
\* action goes on to wait for its event
TaskExecuted(ok) ==
    /\ sc_pc = "executing"
    /\ CurrentTask.action = "unknown_action" => ~ok
    /\ IF ok /\ CurrentTask.trigger_mode = "ON_COMPLETION" /\ CurrentTask.action \in Waitable
       THEN /\ sc_pc' = "waiting"
            /\ IF CurrentTask.action = "backup"
               THEN /\ sc_rx' = Deliver(sc_rx, BackupCompletedEvent(OwnBackup, TRUE))
                    /\ sc_lagged' = (sc_lagged \/ Overflows(sc_rx))
               ELSE UNCHANGED <<sc_rx, sc_lagged>>
            /\ UNCHANGED <<sc_index, sc_log, sc_result, sc_pub>>
       ELSE TaskDone(IF ok THEN "ok" ELSE "failed", NotReported)
    /\ UNCHANGED <<sc_tasks, sc_events, sc_notify, sc_status>>

\* the state an ON_COMPLETION power task waits for
TargetState(action) == IF action = "power_stop" THEN "Offline" ELSE "Running"

\* the event the wait loop returns on
Matches(e, task) ==
    IF task.action = "backup"
    THEN e.event = "BackupCompleted"
    ELSE e.event = "StateChange" /\ e.state = TargetState(task.action)

\* event_rx.recv() returns inside the wait loop: an error ends the wait
\* with Err; a matching event ends it (for a backup after set_backup_status
\* with the event's uuid, Ok only if successful); any other event is
\* passed over
WaitRecv ==
    /\ sc_pc = "waiting"
    /\ IF sc_lagged
       THEN TaskDone("lagged", NotReported)
       ELSE /\ sc_rx # <<>>
            /\ IF Matches(Head(sc_rx), CurrentTask)
               THEN IF CurrentTask.action = "backup"
                    THEN TaskDone(IF Head(sc_rx).successful THEN "matched" ELSE "unsuccessful",
                                  Head(sc_rx).uuid)
                    ELSE TaskDone("matched", NotReported)
               ELSE /\ sc_rx' = Tail(sc_rx)
                    /\ UNCHANGED <<sc_index, sc_pc, sc_log, sc_result, sc_lagged, sc_pub>>
    /\ UNCHANGED <<sc_tasks, sc_events, sc_notify, sc_status>>

\* tokio::time::timeout(600 s) elapses while recv has nothing to return
WaitTimeout ==
    /\ sc_pc = "waiting"
    /\ ~sc_lagged /\ sc_rx = <<>>
    /\ TaskDone("timeout", NotReported)
    /\ UNCHANGED <<sc_tasks, sc_events, sc_notify, sc_status>>

\* after the loop: publish ScheduleExecuting {None}, set_finished, notify
\* the API, Ok
ScheduleEnd ==
    /\ sc_pc = "next"
    /\ sc_index > Len(sc_tasks)
    /\ sc_events' = Append(sc_events, ScheduleExecuting(NoIndex))
    /\ sc_notify' = Append(sc_notify, NoIndex)
    /\ sc_pc' = "returned"
    /\ sc_result' = "Ok"
    /\ sc_status' = SetFinished(sc_status, TRUE)
    /\ UNCHANGED <<sc_tasks, sc_index, sc_log, sc_rx, sc_lagged, sc_pub>>

\* the handler returns; the next execution may begin
ScheduleReturn ==
    /\ sc_pc = "returned"
    /\ sc_pc' = "idle"
    /\ UNCHANGED <<sc_tasks, sc_index, sc_events, sc_notify, sc_log, sc_result,
                   sc_rx, sc_lagged, sc_pub, sc_status>>

\* ScheduleStatusTracker::update_status, for a schedule that is not running
UpdateStatus ==
    /\ sc_pc = "idle"
    /\ ~sc_status.exists
    /\ sc_status' = NewStatus
    /\ UNCHANGED <<sc_tasks, sc_index, sc_pc, sc_events, sc_notify, sc_log, sc_result,
                   sc_rx, sc_lagged, sc_pub>>

ScheduleInit ==
    /\ sc_tasks = <<>>
    /\ sc_index = 1
    /\ sc_pc = "idle"
    /\ sc_events = <<>>
    /\ sc_notify = <<>>
    /\ sc_log = <<>>
    /\ sc_result = "none"
    /\ sc_rx = <<>>
    /\ sc_lagged = FALSE
    /\ sc_pub = 0
    /\ sc_status = NoStatus

(***************************************************************************)
(* SFTP request handler (src/apps/daemon/src/sftp/handler.rs).             *)
(*                                                                         *)
(* A request stream is a sequence of bytes (0..255); text is ASCII, one    *)
(* byte per character.  Responses are kept as records, one per response    *)
(* packet, in the order process_packet appends them; the free-text message *)
(* of a status response is left out.                                       *)
(***************************************************************************)
\* the most requests of one session
MaxRequests == 2
\* the most packets of one framed stream
MaxStreamPackets == 2
\* the most bytes one process_packet call is handed when the stream is split
MaxChunk == 3
\* the number of further entries of the root directory that no request names
ManyEntries == 150
\* the request ids the client uses
RequestIds == {7}

\* ASCII
Slash == 47
Dot == 46
LetterH == 104
NameF == <<102>>
NameD == <<100>>
NameG == <<103>>
NameN == <<110>>
NameO == <<111>>

\* u32::to_be_bytes
U32(n) == <<(n \div 16777216) % 256, (n \div 65536) % 256, (n \div 256) % 256, n % 256>>

\* u64::to_be_bytes of a value below 2^31
U64(n) == <<0, 0, 0, 0>> \o U32(n)

\* u32::from_be_bytes of the four bytes after offset
FromBe(data, offset) ==
    data[offset + 1] * 16777216 + data[offset + 2] * 65536
        + data[offset + 3] * 256 + data[offset + 4]

Missing == [ok |-> FALSE]

\* read_u32: the value and the new offset, or Missing when fewer than four
\* bytes are left
ReadU32(data, offset) ==
    IF offset + 4 > Len(data)
    THEN Missing
    ELSE [ok |-> TRUE, value |-> FromBe(data, offset), offset |-> offset + 4]

\* read_u64; the offsets of the modelled requests are below 2^31, a larger
\* one is read as its low 32 bits
ReadU64(data, offset) ==
    IF offset + 8 > Len(data)
    THEN Missing
    ELSE [ok |-> TRUE, value |-> FromBe(data, offset + 4), offset |-> offset + 8]

\* read_bytes: a u32 length `len` and that many bytes
BytesAfter(data, len) ==
    IF ~len.ok
    THEN Missing
    ELSE IF len.offset + len.value > Len(data)
         THEN Missing
         ELSE [ok |-> TRUE,
               value |-> SubSeq(data, len.offset + 1, len.offset + len.value),
               offset |-> len.offset + len.value]

ReadBytes(data, offset) == BytesAfter(data, ReadU32(data, offset))

\* str::from_utf8 of what read_bytes returned; of the byte strings of the
\* model exactly the all-ASCII ones are UTF-8
FromUtf8(bytes) ==
    IF ~bytes.ok
    THEN Missing
    ELSE IF \E i \in 1..Len(bytes.value) : bytes.value[i] >= 128
         THEN Missing
         ELSE bytes

\* read_string
ReadString(data, offset) == FromUtf8(ReadBytes(data, offset))

ReadField(kind, data, offset) ==
    CASE kind = "u32" -> ReadU32(data, offset)
      [] kind = "u64" -> ReadU64(data, offset)
      [] kind = "string" -> ReadString(data, offset)
      [] kind = "bytes" -> ReadBytes(data, offset)

\* the leading reads of a handler, each `ok_or_else(Invalid packet)?`:
\* the values read, or Missing at the first read that fails
RECURSIVE ReadFields(_, _, _, _)
FieldsAfter(kinds, data, values, field) ==
    IF ~field.ok
    THEN Missing
    ELSE ReadFields(kinds, data, field.offset, Append(values, field.value))

ReadFields(kinds, data, offset, values) ==
    IF kinds = <<>>
    THEN [ok |-> TRUE, values |-> values]
    ELSE FieldsAfter(Tail(kinds), data, values,
                     ReadField(Head(kinds), data, offset))

\* a length-prefixed string
Str(s) == U32(Len(s)) \o s

\* build_response of a request: u32 length, the type byte, the payload
Packet(type, payload) == U32(Len(payload) + 1) \o <<type>> \o payload

\* build_status, build_handle, build_data, build_name, build_attrs and the
\* VERSION reply of handle_init
BuildStatus(request_id, code) == [type |-> 101, id |-> request_id, code |-> code]

BuildHandle(request_id, handle) == [type |-> 102, id |-> request_id, handle |-> handle]

BuildData(request_id, bytes) == [type |-> 103, id |-> request_id, data |-> bytes]

BuildName(request_id, entries) == [type |-> 104, id |-> request_id, entries |-> entries]

BuildAttrs(request_id, attrs) == [type |-> 105, id |-> request_id, attrs |-> attrs]

BuildVersion == [type |-> 2, version |-> 3]

(***************************************************************************)
(* The server's data volume as the handler sees it through std::fs.  A     *)
(* node is named by the list of its components under the root; <<>> is the *)
(* root.  A file node carries the number of its inode, whose content lives *)
(* in `data`, so an open file outlives its name.  The one symbolic link of *)
(* the volume points outside the root.  `extra` counts further plain files *)
(* of the root directory that no request names.                            *)
(***************************************************************************)
VolumeDir == [kind |-> "dir"]

VolumeLink == [kind |-> "link"]

VolumeFile(ino) == [kind |-> "file", ino |-> ino]

FsKind(fs, p) == IF p \in DOMAIN fs.nodes THEN fs.nodes[p].kind ELSE "none"

FsParent(p) == SubSeq(p, 1, Len(p) - 1)

FsChildren(fs, p) ==
    { q \in DOMAIN fs.nodes : Len(q) = Len(p) + 1 /\ FsParent(q) = p }

\* the path components between the separators, empty ones included
RECURSIVE SplitPath(_, _, _)
SplitPath(path, name, names) ==
    IF path = <<>>
    THEN Append(names, name)
    ELSE IF Head(path) = Slash
         THEN SplitPath(Tail(path), <<>>, Append(names, name))
         ELSE SplitPath(Tail(path), Append(name, Head(path)), names)

\* Path::components: RootDir for a leading separator, CurDir for a leading
\* `.` of a relative path, ParentDir for `..`, Normal for every other
\* non-empty component; empty components and every other `.` are skipped
RECURSIVE ComponentsFrom(_, _, _)
ComponentsFrom(names, leading, tokens) ==
    IF names = <<>>
    THEN tokens
    ELSE LET name == Head(names)
         IN  CASE name = <<>> -> ComponentsFrom(Tail(names), leading, tokens)
               [] name = <<Dot>> ->
                    ComponentsFrom(Tail(names), FALSE,
                        IF leading
                        THEN Append(tokens, [kind |-> "CurDir"])
                        ELSE tokens)
               [] name = <<Dot, Dot>> ->
                    ComponentsFrom(Tail(names), FALSE,
                        Append(tokens, [kind |-> "ParentDir"]))
               [] OTHER ->
                    ComponentsFrom(Tail(names), FALSE,
                        Append(tokens, [kind |-> "Normal", name |-> name]))

Components(path) ==
    IF path # <<>> /\ path[1] = Slash
    THEN ComponentsFrom(SplitPath(path, <<>>, <<>>), FALSE,
                        <<[kind |-> "RootDir"]>>)
    ELSE ComponentsFrom(SplitPath(path, <<>>, <<>>), TRUE, <<>>)

\* the loop of handle_realpath over the components: RootDir clears the
\* list, ParentDir pops it, Normal pushes the name, anything else is skipped
RECURSIVE Collapse(_, _)
Collapse(tokens, components) ==
    IF tokens = <<>>
    THEN components
    ELSE LET t == Head(tokens)
         IN  Collapse(Tail(tokens),
                 CASE t.kind = "RootDir" -> <<>>
                   [] t.kind = "ParentDir" ->
                        SubSeq(components, 1, Len(components) - 1)
                   [] t.kind = "Normal" -> Append(components, t.name)
                   [] OTHER -> components)

\* format!("/{}", components.join("/"))
RECURSIVE JoinPath(_)
JoinPath(components) ==
    IF components = <<>>
    THEN <<>>
    ELSE IF Len(components) = 1
         THEN Head(components)
         ELSE Head(components) \o <<Slash>> \o JoinPath(Tail(components))

\* the path as the client gave it
Normalize_Raw(path) == IF path = <<>> THEN <<Slash>> ELSE path

\* the normalization of handle_realpath
Normalize(path) ==
    IF path = <<>> \/ path = <<Dot>>
    THEN <<Slash>>
    ELSE LET components == Collapse(Components(path), <<>>)
         IN  IF components = <<>>
             THEN <<Slash>>
             ELSE <<Slash>> \o JoinPath(components)

\* a resolution that looks at no link
SafePath_Unchecked(fs, path) ==
    [ok |-> TRUE, resolved |-> Collapse(Components(path), <<>>)]

\* Filesystem::safe_path: a leading separator is the root, `.` and `..` are
\* collapsed against the root (`..` at the root is a no-op), symbolic links
\* are resolved along the existing prefix, and the resolution fails when a
\* link leads outside the root
SafePath(fs, path) ==
    LET resolved == Collapse(Components(path), <<>>)
    IN  IF \E k \in 1..Len(resolved) : FsKind(fs, SubSeq(resolved, 1, k)) = "link"
        THEN Missing
        ELSE [ok |-> TRUE, resolved |-> resolved]

\* the status codes of the `match e.kind()` of the handlers: NotFound is 2,
\* PermissionDenied is 3, every other kind is 4
IoCode(kind) ==
    CASE kind = "NotFound" -> 2
      [] kind = "PermissionDenied" -> 3
      [] OTHER -> 4

Bit(flags, bit) == (flags \div bit) % 2 = 1

IoError(fs, kind) == [ok |-> FALSE, kind |-> kind, fs |-> fs]

IoOk(fs) == [ok |-> TRUE, fs |-> fs]

\* why the parent of a name to be created cannot take it, or "none"
ParentError(fs, p) ==
    IF p = <<>> THEN "Other"
    ELSE CASE FsKind(fs, FsParent(p)) = "none" -> "NotFound"
           [] FsKind(fs, FsParent(p)) = "dir" -> "none"
           [] OTHER -> "Other"

NewInode(fs) ==
    IF DOMAIN fs.data = {} THEN 1
    ELSE 1 + CHOOSE n \in DOMAIN fs.data : \A m \in DOMAIN fs.data : m <= n

\* OpenOptions::open with the options handle_open sets from the flag bits;
\* a directory opens for reading only and has inode 0 here
FsOpen(fs, p, pflags) ==
    LET read == Bit(pflags, 1)
        write == Bit(pflags, 2)
        append == Bit(pflags, 4)
        create == Bit(pflags, 8)
        truncate == Bit(pflags, 16)
        kind == FsKind(fs, p)
    IN  IF \/ ~read /\ ~write /\ ~append
           \/ ~write /\ ~append /\ (truncate \/ create)
           \/ append /\ truncate
        THEN IoError(fs, "InvalidInput")
        ELSE CASE kind = "dir" ->
                    IF write \/ append
                    THEN IoError(fs, "IsADirectory")
                    ELSE [ok |-> TRUE, fs |-> fs, ino |-> 0]
               [] kind = "file" ->
                    LET ino == fs.nodes[p].ino
                    IN  [ok |-> TRUE, ino |-> ino,
                         fs |-> IF truncate
                                THEN [fs EXCEPT !.data[ino] = <<>>]
                                ELSE fs]
               [] OTHER ->
                    IF ~create
                    THEN IoError(fs, "NotFound")
                    ELSE IF ParentError(fs, p) # "none"
                         THEN IoError(fs, ParentError(fs, p))
                         ELSE LET ino == NewInode(fs)
                              IN  [ok |-> TRUE, ino |-> ino,
                                   fs |-> [fs EXCEPT
                                       !.nodes = (p :> VolumeFile(ino)) @@ @,
                                       !.data = (ino :> <<>>) @@ @]]

\* std::fs::remove_file
FsRemoveFile(fs, p) ==
    CASE FsKind(fs, p) = "none" -> IoError(fs, "NotFound")
      [] FsKind(fs, p) = "dir" -> IoError(fs, "IsADirectory")
      [] OTHER ->
            IoOk([fs EXCEPT !.nodes = [q \in DOMAIN @ \ {p} |-> @[q]]])

\* std::fs::create_dir
FsCreateDir(fs, p) ==
    IF FsKind(fs, p) # "none"
    THEN IoError(fs, "AlreadyExists")
    ELSE IF ParentError(fs, p) # "none"
         THEN IoError(fs, ParentError(fs, p))
         ELSE IoOk([fs EXCEPT !.nodes = (p :> VolumeDir) @@ @])

\* std::fs::remove_dir
FsRemoveDir(fs, p) ==
    CASE FsKind(fs, p) = "none" -> IoError(fs, "NotFound")
      [] FsKind(fs, p) # "dir" -> IoError(fs, "NotADirectory")
      [] p = <<>> -> IoError(fs, "ResourceBusy")
      [] FsChildren(fs, p) # {} -> IoError(fs, "DirectoryNotEmpty")
      [] OTHER ->
            IoOk([fs EXCEPT !.nodes = [q \in DOMAIN @ \ {p} |-> @[q]]])

\* std::fs::rename; the directories of the model have no subdirectories
FsRename(fs, old, new) ==
    LET from == FsKind(fs, old)
        to == FsKind(fs, new)
    IN  CASE from = "none" -> IoError(fs, "NotFound")
          [] old = <<>> \/ new = <<>> -> IoError(fs, "ResourceBusy")
          [] ParentError(fs, new) # "none" -> IoError(fs, ParentError(fs, new))
          [] old = new -> IoOk(fs)
          [] from = "dir" /\ FsParent(new) = old -> IoError(fs, "InvalidInput")
          [] from = "dir" /\ to = "file" -> IoError(fs, "NotADirectory")
          [] from = "file" /\ to = "dir" -> IoError(fs, "IsADirectory")
          [] to = "dir" /\ FsChildren(fs, new) # {} ->
                IoError(fs, "DirectoryNotEmpty")
          [] OTHER ->
                LET Moved(q) ==
                        IF q = old THEN new
                        ELSE IF Len(q) > Len(old) /\ FsParent(q) = old
                             THEN Append(new, q[Len(q)])
                             ELSE q
                    kept == { q \in DOMAIN fs.nodes : q # new }
                IN  IoOk([fs EXCEPT !.nodes =
                        [r \in { Moved(q) : q \in kept } |->
                            fs.nodes[CHOOSE q \in kept : Moved(q) = r]]])

\* the attributes metadata_to_attrs reports, as far as the model tells
\* nodes apart: the kind and the size
FsMetadata(fs, p) ==
    CASE FsKind(fs, p) = "none" -> IoError(fs, "NotFound")
      [] FsKind(fs, p) = "file" ->
            [ok |-> TRUE, attrs |-> [kind |-> "file",
                                     size |-> Len(fs.data[fs.nodes[p].ino])]]
      [] OTHER -> [ok |-> TRUE, attrs |-> [kind |-> "dir", size |-> 0]]

\* FileAttributes::default()
DefaultAttrs == [kind |-> "none", size |-> 0]

\* the name of the i-th further file of the root directory
RECURSIVE Decimal(_)
Decimal(n) == IF n < 10 THEN <<48 + n>> ELSE Decimal(n \div 10) \o <<48 + (n % 10)>>

ExtraName(i) == <<120>> \o Decimal(i)

\* the names of a set of nodes in one fixed order
RECURSIVE NamesOf(_)
NamesOf(nodes) ==
    IF nodes = {}
    THEN <<>>
    ELSE LET q == CHOOSE n \in nodes : TRUE
         IN  <<q[Len(q)]>> \o NamesOf(nodes \ {q})

\* std::fs::read_dir and the entries handle_opendir collects from it:
\* `.` and `..` first, then one entry per child
FsReadDir(fs, p) ==
    CASE FsKind(fs, p) = "none" -> IoError(fs, "NotFound")
      [] FsKind(fs, p) # "dir" -> IoError(fs, "NotADirectory")
      [] OTHER ->
            [ok |-> TRUE,
             entries |-> <<<<Dot>>, <<Dot, Dot>>>>
                 \o NamesOf(FsChildren(fs, p))
                 \o IF p = <<>>
                    THEN [i \in 1..fs.extra |-> ExtraName(i)]
                    ELSE <<>>]

\* File::seek then File::read of at most len bytes
FsRead(fs, ino, offset, len) ==
    LET data == fs.data[ino]
    IN  IF offset >= Len(data)
        THEN <<>>
        ELSE SubSeq(data, offset + 1,
                    IF offset + len < Len(data) THEN offset + len ELSE Len(data))

\* File::seek then File::write_all; a gap before the offset reads as zeros,
\* a file opened for appending is written at its end
FsWrite(fs, ino, offset, bytes, append) ==
    LET data == fs.data[ino]
        at == IF append THEN Len(data) ELSE offset
        padded == data \o [i \in 1..(at - Len(data)) |-> 0]
    IN  [fs EXCEPT !.data[ino] =
            SubSeq(padded, 1, at) \o bytes
                \o SubSeq(padded, at + Len(bytes) + 1, Len(padded))]

(***************************************************************************)
(* The session: SftpFileHandler's fields and the filesystem it works on,   *)
(* as one record st = [read_only, user, handles, handle_counter, buffer,   *)
(* fs].  `user` is the set of the authenticated user's permissions.  Each  *)
(* handler maps the session and a payload to the session after it and the  *)
(* responses it returns; ok is FALSE when it returns Err.                  *)
(***************************************************************************)
Permissions == {"read", "write", "delete", "create_dir"}

Reply(st, response) == [ok |-> TRUE, st |-> st, resp |-> <<response>>]

NoReply(st) == [ok |-> TRUE, st |-> st, resp |-> <<>>]

\* Err(SftpError::Other("Invalid packet"))
InvalidPacket(st) == [ok |-> FALSE, st |-> st, resp |-> <<>>]

\* a token numbered by the handles that are open
NextHandle_Open(st) ==
    [counter |-> st.handle_counter + 1,
     handle |-> <<LetterH>> \o Decimal(Cardinality(DOMAIN st.handles) + 1)]

\* next_handle: the counter after the increment and format!("h{}", counter)
NextHandle(st) ==
    [counter |-> st.handle_counter + 1,
     handle |-> <<LetterH>> \o Decimal(st.handle_counter + 1)]

FileHandle(ino, flags) == [kind |-> "File", ino |-> ino, flags |-> flags]

DirectoryHandle(entries) ==
    [kind |-> "Directory", entries |-> entries, position |-> 0]

HandleKind(st, handle) ==
    IF handle \in DOMAIN st.handles THEN st.handles[handle].kind ELSE "none"

\* handle_init
HandleInit(st, data) == Reply(st, BuildVersion)

\* the WRITE bit alone
IsWrite_WriteBit(pflags) == Bit(pflags, 2)

\* the write test of handle_open
IsWrite(pflags) == Bit(pflags, 2) \/ Bit(pflags, 8) \/ Bit(pflags, 16)

\* handle_open
OpenParsed(st, f) ==
    IF ~f.ok THEN InvalidPacket(st)
    ELSE LET request_id == f.values[1]
             pflags == f.values[3]
             safe_path == SafePath(st.fs, f.values[2])
         IN  IF IsWrite(pflags) /\ st.read_only
             THEN Reply(st, BuildStatus(request_id, 3))
             ELSE IF IsWrite(pflags) /\ "write" \notin st.user
             THEN Reply(st, BuildStatus(request_id, 3))
             ELSE IF ~IsWrite(pflags) /\ "read" \notin st.user
             THEN Reply(st, BuildStatus(request_id, 3))
             ELSE IF ~safe_path.ok
             THEN Reply(st, BuildStatus(request_id, 3))
             ELSE LET opened == FsOpen(st.fs, safe_path.resolved, pflags)
                      next == NextHandle(st)
                  IN  IF ~opened.ok
                      THEN Reply([st EXCEPT !.fs = opened.fs],
                                 BuildStatus(request_id, IoCode(opened.kind)))
                      ELSE Reply([st EXCEPT
                                    !.fs = opened.fs,
                                    !.handle_counter = next.counter,
                                    !.handles = (next.handle :>
                                        FileHandle(opened.ino, pflags)) @@ @],
                                 BuildHandle(request_id, next.handle))

HandleOpen(st, data) ==
    OpenParsed(st, ReadFields(<<"u32", "string", "u32">>, data, 0, <<>>))

\* handle_close
CloseParsed(st, f) ==
    IF ~f.ok THEN InvalidPacket(st)
    ELSE LET request_id == f.values[1]
             handle == f.values[2]
         IN  IF handle \in DOMAIN st.handles
             THEN Reply([st EXCEPT !.handles =
                            [h \in DOMAIN @ \ {handle} |-> @[h]]],
                        BuildStatus(request_id, 0))
             ELSE Reply(st, BuildStatus(request_id, 4))

HandleClose(st, data) ==
    CloseParsed(st, ReadFields(<<"u32", "string">>, data, 0, <<>>))

\* the largest read of handle_read
ReadLimit == 65536

\* handle_read
ReadParsed(st, f) ==
    IF ~f.ok THEN InvalidPacket(st)
    ELSE LET request_id == f.values[1]
             handle == f.values[2]
             read_len == IF f.values[4] < ReadLimit THEN f.values[4] ELSE ReadLimit
         IN  IF HandleKind(st, handle) # "File"
             THEN Reply(st, BuildStatus(request_id, 4))
             ELSE LET file == st.handles[handle]
                  IN  IF file.ino = 0 \/ ~Bit(file.flags, 1)
                      THEN Reply(st, BuildStatus(request_id, 4))
                      ELSE LET bytes == FsRead(st.fs, file.ino, f.values[3], read_len)
                           IN  IF bytes = <<>>
                               THEN Reply(st, BuildStatus(request_id, 1))
                               ELSE Reply(st, BuildData(request_id, bytes))

HandleRead(st, data) ==
    ReadParsed(st, ReadFields(<<"u32", "string", "u64", "u32">>, data, 0, <<>>))

\* handle_write
WriteParsed(st, f) ==
    IF ~f.ok THEN InvalidPacket(st)
    ELSE LET request_id == f.values[1]
             handle == f.values[2]
         IN  IF st.read_only \/ "write" \notin st.user
             THEN Reply(st, BuildStatus(request_id, 3))
             ELSE IF HandleKind(st, handle) # "File"
             THEN Reply(st, BuildStatus(request_id, 4))
             ELSE LET file == st.handles[handle]
                  IN  IF ~Bit(file.flags, 2) /\ ~Bit(file.flags, 4)
                      THEN Reply(st, BuildStatus(request_id, 4))
                      ELSE Reply([st EXCEPT !.fs =
                                    FsWrite(@, file.ino, f.values[3],
                                            f.values[4], Bit(file.flags, 4))],
                                 BuildStatus(request_id, 0))

HandleWrite(st, data) ==
    WriteParsed(st, ReadFields(<<"u32", "string", "u64", "bytes">>, data, 0, <<>>))

\* handle_stat_impl; the volume's paths that resolve hold no symbolic link,
\* so following links or not gives the same metadata
StatImplParsed(st, f) ==
    IF ~f.ok THEN InvalidPacket(st)
    ELSE LET request_id == f.values[1]
             safe_path == SafePath(st.fs, f.values[2])
         IN  IF ~safe_path.ok
             THEN Reply(st, BuildStatus(request_id, 3))
             ELSE LET metadata == FsMetadata(st.fs, safe_path.resolved)
                  IN  IF metadata.ok
                      THEN Reply(st, BuildAttrs(request_id, metadata.attrs))
                      ELSE Reply(st, BuildStatus(request_id, IoCode(metadata.kind)))

HandleStatImpl(st, data) ==
    StatImplParsed(st, ReadFields(<<"u32", "string">>, data, 0, <<>>))

\* handle_fstat
FstatParsed(st, f) ==
    IF ~f.ok THEN InvalidPacket(st)
    ELSE LET request_id == f.values[1]
             handle == f.values[2]
         IN  IF HandleKind(st, handle) # "File"
             THEN Reply(st, BuildStatus(request_id, 4))
             ELSE LET ino == st.handles[handle].ino
                  IN  Reply(st, BuildAttrs(request_id,
                        IF ino = 0
                        THEN [kind |-> "dir", size |-> 0]
                        ELSE [kind |-> "file", size |-> Len(st.fs.data[ino])]))

HandleFstat(st, data) ==
    FstatParsed(st, ReadFields(<<"u32", "string">>, data, 0, <<>>))

\* handle_setstat and handle_fsetstat: acknowledged, nothing is changed
SetstatParsed(st, f) ==
    IF ~f.ok THEN InvalidPacket(st)
    ELSE Reply(st, BuildStatus(f.values[1], 0))

HandleSetstat(st, data) ==
    SetstatParsed(st, ReadFields(<<"u32", "string">>, data, 0, <<>>))

\* handle_opendir
OpendirParsed(st, f) ==
    IF ~f.ok THEN InvalidPacket(st)
    ELSE LET request_id == f.values[1]
             safe_path == SafePath(st.fs, f.values[2])
         IN  IF "read" \notin st.user
             THEN Reply(st, BuildStatus(request_id, 3))
             ELSE IF ~safe_path.ok
             THEN Reply(st, BuildStatus(request_id, 3))
             ELSE LET dir == FsReadDir(st.fs, safe_path.resolved)
                      next == NextHandle(st)
                  IN  IF ~dir.ok
                      THEN Reply(st, BuildStatus(request_id, IoCode(dir.kind)))
                      ELSE Reply([st EXCEPT
                                    !.handle_counter = next.counter,
                                    !.handles = (next.handle :>
                                        DirectoryHandle(dir.entries)) @@ @],
                                 BuildHandle(request_id, next.handle))

HandleOpendir(st, data) ==
    OpendirParsed(st, ReadFields(<<"u32", "string">>, data, 0, <<>>))

\* the most entries of one READDIR response
ReaddirBatch == 100

\* every entry that is left
BatchSize_All(left) == left

\* std::cmp::min(100, entries.len() - *position)
BatchSize(left) == IF left < ReaddirBatch THEN left ELSE ReaddirBatch

\* handle_readdir
ReaddirParsed(st, f) ==
    IF ~f.ok THEN InvalidPacket(st)
    ELSE LET request_id == f.values[1]
             handle == f.values[2]
         IN  IF HandleKind(st, handle) # "Directory"
             THEN Reply(st, BuildStatus(request_id, 4))
             ELSE LET dir == st.handles[handle]
                      batch_size == BatchSize(Len(dir.entries) - dir.position)
                  IN  IF dir.position >= Len(dir.entries)
                      THEN Reply(st, BuildStatus(request_id, 1))
                      ELSE Reply([st EXCEPT !.handles[handle].position =
                                    @ + batch_size],
                                 BuildName(request_id,
                                    SubSeq(dir.entries, dir.position + 1,
                                           dir.position + batch_size)))

HandleReaddir(st, data) ==
    ReaddirParsed(st, ReadFields(<<"u32", "string">>, data, 0, <<>>))

\* the std::fs call of handle_remove, handle_mkdir or handle_rmdir
FsPathOp(op, fs, p) ==
    CASE op = "remove_file" -> FsRemoveFile(fs, p)
      [] op = "create_dir" -> FsCreateDir(fs, p)
      [] OTHER -> FsRemoveDir(fs, p)

\* handle_remove, handle_mkdir and handle_rmdir: the permission test, the
\* path resolution, then the std::fs call `op` with its error mapping
PathOpParsed(st, f, permission, op) ==
    IF ~f.ok THEN InvalidPacket(st)
    ELSE LET request_id == f.values[1]
             safe_path == SafePath(st.fs, f.values[2])
         IN  IF st.read_only \/ permission \notin st.user
             THEN Reply(st, BuildStatus(request_id, 3))
             ELSE IF ~safe_path.ok
             THEN Reply(st, BuildStatus(request_id, 3))
             ELSE LET done == FsPathOp(op, st.fs, safe_path.resolved)
                  IN  IF done.ok
                      THEN Reply([st EXCEPT !.fs = done.fs],
                                 BuildStatus(request_id, 0))
                      ELSE Reply(st, BuildStatus(request_id, IoCode(done.kind)))

HandlePathOp(st, data, permission, op) ==
    PathOpParsed(st, ReadFields(<<"u32", "string">>, data, 0, <<>>), permission, op)

HandleRemove(st, data) == HandlePathOp(st, data, "delete", "remove_file")

HandleMkdir(st, data) == HandlePathOp(st, data, "create_dir", "create_dir")

HandleRmdir(st, data) == HandlePathOp(st, data, "delete", "remove_dir")

\* handle_realpath
RealpathParsed(st, f) ==
    IF ~f.ok THEN InvalidPacket(st)
    ELSE LET request_id == f.values[1]
             normalized == Normalize(f.values[2])
             safe_path == SafePath(st.fs, normalized)
             metadata == FsMetadata(st.fs, safe_path.resolved)
             attrs == IF ~safe_path.ok THEN DefaultAttrs
                      ELSE IF metadata.ok THEN metadata.attrs
                      ELSE DefaultAttrs
         IN  Reply(st, BuildName(request_id,
                    <<[name |-> normalized, attrs |-> attrs]>>))

HandleRealpath(st, data) ==
    RealpathParsed(st, ReadFields(<<"u32", "string">>, data, 0, <<>>))

\* handle_rename
RenameParsed(st, f) ==
    IF ~f.ok THEN InvalidPacket(st)
    ELSE LET request_id == f.values[1]
             safe_old == SafePath(st.fs, f.values[2])
             safe_new == SafePath(st.fs, f.values[3])
         IN  IF st.read_only \/ "write" \notin st.user
             THEN Reply(st, BuildStatus(request_id, 3))
             ELSE IF ~safe_old.ok
             THEN Reply(st, BuildStatus(request_id, 3))
             ELSE IF ~safe_new.ok
             THEN Reply(st, BuildStatus(request_id, 3))
             ELSE LET done == FsRename(st.fs, safe_old.resolved,
                                       safe_new.resolved)
                  IN  IF done.ok
                      THEN Reply([st EXCEPT !.fs = done.fs],
                                 BuildStatus(request_id, 0))
                      ELSE Reply(st, BuildStatus(request_id, IoCode(done.kind)))

HandleRename(st, data) ==
    RenameParsed(st, ReadFields(<<"u32", "string", "string">>, data, 0, <<>>))

\* handle_readlink; a path that resolves names no symbolic link, for which
\* read_link fails with InvalidInput
ReadlinkParsed(st, f) ==
    IF ~f.ok THEN InvalidPacket(st)
    ELSE LET request_id == f.values[1]
             safe_path == SafePath(st.fs, f.values[2])
         IN  IF ~safe_path.ok
             THEN Reply(st, BuildStatus(request_id, 3))
             ELSE IF FsKind(st.fs, safe_path.resolved) = "none"
             THEN Reply(st, BuildStatus(request_id, 2))
             ELSE Reply(st, BuildStatus(request_id, 4))

HandleReadlink(st, data) ==
    ReadlinkParsed(st, ReadFields(<<"u32", "string">>, data, 0, <<>>))

\* handle_symlink
SymlinkParsed(st, f) ==
    IF ~f.ok THEN InvalidPacket(st)
    ELSE Reply(st, BuildStatus(f.values[1], 3))

HandleSymlink(st, data) ==
    SymlinkParsed(st, ReadFields(<<"u32">>, data, 0, <<>>))

\* handle_packet: nothing for an empty packet, else the handler of the
\* type byte, nothing for an unknown type
HandlePacket(st, data) ==
    IF data = <<>>
    THEN NoReply(st)
    ELSE LET packet_type == data[1]
             payload == Tail(data)
         IN  CASE packet_type = 1 -> HandleInit(st, payload)
               [] packet_type = 3 -> HandleOpen(st, payload)
               [] packet_type = 4 -> HandleClose(st, payload)
               [] packet_type = 5 -> HandleRead(st, payload)
               [] packet_type = 6 -> HandleWrite(st, payload)
               [] packet_type = 7 -> HandleStatImpl(st, payload)
               [] packet_type = 8 -> HandleFstat(st, payload)
               [] packet_type = 9 -> HandleSetstat(st, payload)
               [] packet_type = 10 -> HandleSetstat(st, payload)
               [] packet_type = 11 -> HandleOpendir(st, payload)
               [] packet_type = 12 -> HandleReaddir(st, payload)
               [] packet_type = 13 -> HandleRemove(st, payload)
               [] packet_type = 14 -> HandleMkdir(st, payload)
               [] packet_type = 15 -> HandleRmdir(st, payload)
               [] packet_type = 16 -> HandleRealpath(st, payload)
               [] packet_type = 17 -> HandleStatImpl(st, payload)
               [] packet_type = 18 -> HandleRename(st, payload)
               [] packet_type = 19 -> HandleReadlink(st, payload)
               [] packet_type = 20 -> HandleSymlink(st, payload)
               [] OTHER -> NoReply(st)

\* the loop of process_packet: while the buffer holds a whole packet, drain
\* it and handle it; an Err of the handler ends the call, and the responses
\* collected in it are not returned
RECURSIVE DrainBuffer(_, _)
AfterPacket(handled, responses) ==
    IF ~handled.ok
    THEN [ok |-> FALSE, st |-> handled.st, resp |-> <<>>]
    ELSE DrainBuffer(handled.st, responses \o handled.resp)

DrainBuffer(st, responses) ==
    IF Len(st.buffer) < 5
    THEN [ok |-> TRUE, st |-> st, resp |-> responses]
    ELSE LET length == FromBe(st.buffer, 0)
         IN  IF Len(st.buffer) < 4 + length
             THEN [ok |-> TRUE, st |-> st, resp |-> responses]
             ELSE AfterPacket(
                    HandlePacket(
                        [st EXCEPT !.buffer = SubSeq(@, 4 + length + 1, Len(@))],
                        SubSeq(st.buffer, 5, 4 + length)),
                    responses)

\* the data in place of the buffer
ProcessPacket_Replace(st, data) ==
    DrainBuffer([st EXCEPT !.buffer = data], <<>>)

\* process_packet: append the data to the buffer, then drain it
ProcessPacket(st, data) ==
    DrainBuffer([st EXCEPT !.buffer = @ \o data], <<>>)

(***************************************************************************)
(* The client side: requests as the records the client encodes, the        *)
(* session at construction, one action per request type handing one whole  *)
(* packet to process_packet, and the transport handing a stream of packets *)
(* to process_packet in chunks.                                            *)
(***************************************************************************)
\* the most handles one session is given
MaxHandles == 2

\* the client's encoding of a request (SFTPv3): the fields the handler
\* reads, then the attributes block of the requests that carry one
Encode(req) ==
    LET id == U32(req.id)
    IN  CASE req.type = 1 -> Packet(1, U32(3))
          [] req.type = 3 ->
                Packet(3, id \o Str(req.path) \o U32(req.pflags) \o U32(0))
          [] req.type \in {4, 8, 12} -> Packet(req.type, id \o Str(req.handle))
          [] req.type = 5 ->
                Packet(5, id \o Str(req.handle) \o U64(req.offset) \o U32(req.len))
          [] req.type = 6 ->
                Packet(6, id \o Str(req.handle) \o U64(req.offset) \o Str(req.data))
          [] req.type \in {7, 11, 13, 15, 16, 17, 19} ->
                Packet(req.type, id \o Str(req.path))
          [] req.type \in {9, 14} -> Packet(req.type, id \o Str(req.path) \o U32(0))
          [] req.type = 10 -> Packet(10, id \o Str(req.handle) \o U32(0))
          [] req.type = 18 -> Packet(18, id \o Str(req.path) \o Str(req.new_path))
          [] req.type = 20 -> Packet(20, id \o Str(req.path) \o Str(req.new_path))
          [] OTHER -> Packet(req.type, <<>>)

\* the paths the client names: the root, a file, a directory, a file in
\* it, a name that does not exist, the link that leaves the root and a name
\* behind it
ClientPaths ==
    { <<Slash>>,
      <<Slash>> \o NameF,
      <<Slash>> \o NameD,
      <<Slash>> \o NameD \o <<Slash>> \o NameG,
      <<Slash>> \o NameN,
      <<Slash>> \o NameO,
      <<Slash>> \o NameO \o <<Slash>> \o NameF }

\* further spellings of paths, with `.` and `..`
DottedPaths ==
    { NameD \o <<Slash, Dot, Dot, Slash, Dot, Slash>> \o NameF,
      <<Dot, Dot, Slash>> \o NameO }

\* the open flags the client uses: READ, WRITE, READ|WRITE, READ|APPEND,
\* CREAT, TRUNC, WRITE|CREAT|TRUNC
ClientFlags == {1, 2, 3, 5, 8, 16, 26}

\* the handle tokens the client names
ClientHandles == { <<LetterH>> \o Decimal(i) : i \in 1..MaxHandles }

\* the bytes of a WRITE
ClientData == <<9>>

\* the volume when the session starts
NewVolume(extra) ==
    [nodes |-> (<<>> :> VolumeDir)
            @@ (<<NameF>> :> VolumeFile(1))
            @@ (<<NameD>> :> VolumeDir)
            @@ (<<NameD, NameG>> :> VolumeFile(2))
            @@ (<<NameO>> :> VolumeLink),
     data |-> (1 :> <<1, 2>>) @@ (2 :> <<3>>),
     extra |-> extra]

\* SftpFileHandler::new
NewSession(read_only, user, extra) ==
    [read_only |-> read_only, user |-> user, handles |-> <<>>,
     handle_counter |-> 0, buffer |-> <<>>, fs |-> NewVolume(extra)]

NoRequest == [type |-> 0]

NoResult == [ok |-> TRUE, resp |-> <<>>]

\* a session nobody uses
SftpIdle ==
    /\ sf_st = NewSession(FALSE, Permissions, 0)
    /\ sf_req = NoRequest
    /\ sf_res = NoResult
    /\ sf_count = 0
    /\ sf_issued = <<>>
    /\ sf_closed = {}
    /\ sf_listed = <<>>
    /\ sf_wire = <<>>
    /\ sf_sent = <<>>
    /\ sf_out = <<>>

\* a new session: read-only or not, of a user with every permission, with
\* read alone or with write alone, on a volume whose root holds few entries
\* or many
SftpInit ==
    /\ \E read_only \in BOOLEAN, user \in {Permissions, {"read"}, {"write"}},
          extra \in {0, ManyEntries} :
            sf_st = NewSession(read_only, user, extra)
    /\ sf_req = NoRequest
    /\ sf_res = NoResult
    /\ sf_count = 0
    /\ sf_issued = <<>>
    /\ sf_closed = {}
    /\ sf_listed = <<>>
    /\ sf_wire = <<>>
    /\ sf_sent = <<>>
    /\ sf_out = <<>>

\* the result of a call is one status response with the code
StatusIs(res, code) ==
    /\ res.ok
    /\ Len(res.resp) = 1
    /\ res.resp[1].type = 101
    /\ res.resp[1].code = code

\* the handles a list of responses hands out
RECURSIVE HandlesIn(_)
HandlesIn(responses) ==
    IF responses = <<>>
    THEN <<>>
    ELSE (IF Head(responses).type = 102 THEN <<Head(responses).handle>> ELSE <<>>)
            \o HandlesIn(Tail(responses))

\* what the session keeps of a call that returned `done` for the request:
\* the handles it was given, the handles it closed and the names each
\* directory handle has listed
Called(req, done) ==
    /\ sf_st' = done.st
    /\ sf_req' = req
    /\ sf_res' = [ok |-> done.ok, resp |-> done.resp]
    /\ sf_count' = sf_count + 1
    /\ sf_issued' = sf_issued \o HandlesIn(done.resp)
    /\ sf_closed' =
          IF req.type = 4 /\ done.resp # <<>> /\ done.resp[1].code = 0
          THEN sf_closed \cup {req.handle}
          ELSE sf_closed
    /\ sf_listed' =
          IF done.resp # <<>> /\ done.resp[1].type = 102
          THEN (done.resp[1].handle :> <<>>) @@ sf_listed
          ELSE IF req.type = 12 /\ done.resp # <<>> /\ done.resp[1].type = 104
          THEN [sf_listed EXCEPT ![req.handle] = @ \o done.resp[1].entries]
          ELSE sf_listed
    /\ UNCHANGED <<sf_wire, sf_sent, sf_out>>

\* one request of the client, sent as one packet in one process_packet
\* call, in a session of at most `most` requests
Call(req, most) ==
    /\ sf_count < most
    /\ Called(req, ProcessPacket(sf_st, Encode(req)))

SftpInitRequest == Call([type |-> 1, id |-> 0], MaxRequests)

SftpOpen ==
    /\ sf_st.handle_counter < MaxHandles
    /\ \E id \in RequestIds, path \in ClientPaths, pflags \in ClientFlags :
            Call([type |-> 3, id |-> id, path |-> path, pflags |-> pflags], MaxRequests)

SftpClose ==
    \E id \in RequestIds, handle \in ClientHandles :
        Call([type |-> 4, id |-> id, handle |-> handle], MaxRequests)

SftpRead ==
    \E id \in RequestIds, handle \in ClientHandles, offset \in {0, 1} :
        Call([type |-> 5, id |-> id, handle |-> handle, offset |-> offset,
              len |-> 1], MaxRequests)

SftpWrite ==
    \E id \in RequestIds, handle \in ClientHandles :
        Call([type |-> 6, id |-> id, handle |-> handle, offset |-> 0,
              data |-> ClientData], MaxRequests)

SftpStat ==
    \E id \in RequestIds, path \in ClientPaths, type \in {7, 17} :
        Call([type |-> type, id |-> id, path |-> path], MaxRequests)

SftpFstat ==
    \E id \in RequestIds, handle \in ClientHandles :
        Call([type |-> 8, id |-> id, handle |-> handle], MaxRequests)

SftpSetstat ==
    \/ \E id \in RequestIds, path \in ClientPaths \cup DottedPaths :
            Call([type |-> 9, id |-> id, path |-> path], MaxRequests)
    \/ \E id \in RequestIds, handle \in ClientHandles :
            Call([type |-> 10, id |-> id, handle |-> handle], MaxRequests)

SftpOpendir ==
    /\ sf_st.handle_counter < MaxHandles
    /\ \E id \in RequestIds, path \in ClientPaths :
            Call([type |-> 11, id |-> id, path |-> path], MaxRequests)

SftpReaddir ==
    \E id \in RequestIds, handle \in ClientHandles :
        Call([type |-> 12, id |-> id, handle |-> handle], MaxRequests)

SftpRemove ==
    \E id \in RequestIds, path \in ClientPaths :
        Call([type |-> 13, id |-> id, path |-> path], MaxRequests)

SftpMkdir ==
    \E id \in RequestIds, path \in ClientPaths :
        Call([type |-> 14, id |-> id, path |-> path], MaxRequests)

SftpRmdir ==
    \E id \in RequestIds, path \in ClientPaths :
        Call([type |-> 15, id |-> id, path |-> path], MaxRequests)

SftpRealpath ==
    \E id \in RequestIds, path \in ClientPaths \cup DottedPaths :
        Call([type |-> 16, id |-> id, path |-> path], MaxRequests)

SftpRename ==
    \E id \in RequestIds, path \in ClientPaths, new_path \in ClientPaths :
        Call([type |-> 18, id |-> id, path |-> path, new_path |-> new_path], MaxRequests)

SftpReadlink ==
    \E id \in RequestIds, path \in ClientPaths :
        Call([type |-> 19, id |-> id, path |-> path], MaxRequests)

SftpSymlink ==
    \E id \in RequestIds :
        Call([type |-> 20, id |-> id, path |-> <<Slash>> \o NameN,
              new_path |-> <<Slash>> \o NameF], MaxRequests)

\* the most requests of a session that works on its handles
MaxHandleRequests == 5

\* a session that opens a file or a directory
OpenSome ==
    /\ sf_st.handle_counter < MaxHandles
    /\ \E id \in RequestIds :
        \/ \E pflags \in {1, 7} :
                Call([type |-> 3, id |-> id, path |-> <<Slash>> \o NameF,
                      pflags |-> pflags], MaxHandleRequests)
        \/ \E path \in {<<Slash>>, <<Slash>> \o NameD} :
                Call([type |-> 11, id |-> id, path |-> path], MaxHandleRequests)

\* a READ, WRITE, FSTAT or READDIR on a handle token
UseHandle ==
    \E id \in RequestIds, handle \in ClientHandles :
        \/ Call([type |-> 5, id |-> id, handle |-> handle, offset |-> 0,
                 len |-> 1], MaxHandleRequests)
        \/ Call([type |-> 6, id |-> id, handle |-> handle, offset |-> 0,
                 data |-> ClientData], MaxHandleRequests)
        \/ \E type \in {8, 12} :
                Call([type |-> type, id |-> id, handle |-> handle],
                     MaxHandleRequests)

\* a CLOSE of a handle token
CloseHandle ==
    \E id \in RequestIds, handle \in ClientHandles :
        Call([type |-> 4, id |-> id, handle |-> handle], MaxHandleRequests)

\* the requests a client pipelines into one stream
StreamRequests ==
    { [type |-> 1, id |-> 0],
      [type |-> 3, id |-> 7, path |-> <<Slash>> \o NameF, pflags |-> 1],
      [type |-> 3, id |-> 7, path |-> <<Slash>> \o NameN, pflags |-> 26],
      [type |-> 4, id |-> 7, handle |-> <<LetterH, 49>>],
      [type |-> 5, id |-> 7, handle |-> <<LetterH, 49>>, offset |-> 0, len |-> 1],
      [type |-> 6, id |-> 7, handle |-> <<LetterH, 49>>, offset |-> 0,
       data |-> ClientData],
      [type |-> 11, id |-> 7, path |-> <<Slash>> \o NameD],
      [type |-> 12, id |-> 7, handle |-> <<LetterH, 49>>],
      [type |-> 13, id |-> 7, path |-> <<Slash>> \o NameF],
      [type |-> 16, id |-> 7, path |-> <<Dot, Dot, Slash>> \o NameO],
      [type |-> 200, id |-> 7] }

RECURSIVE EncodeAll(_)
EncodeAll(requests) ==
    IF requests = <<>>
    THEN <<>>
    ELSE Encode(Head(requests)) \o EncodeAll(Tail(requests))

\* the client writes a stream of packets to the channel of a new session
SftpSend ==
    /\ sf_wire = <<>> /\ sf_sent = <<>>
    /\ \E n \in 1..MaxStreamPackets :
        \E requests \in [1..n -> StreamRequests] :
            sf_wire' = EncodeAll(requests)
    /\ UNCHANGED <<sf_st, sf_req, sf_res, sf_count, sf_issued, sf_closed,
                   sf_listed, sf_sent, sf_out>>

\* the channel after process_packet returned `done` for the data
Received(data, done) ==
    /\ sf_st' = done.st
    /\ sf_res' = [ok |-> done.ok, resp |-> done.resp]
    /\ sf_wire' = SubSeq(sf_wire, Len(data) + 1, Len(sf_wire))
    /\ sf_sent' = sf_sent \o data
    /\ sf_out' = sf_out \o done.resp
    /\ UNCHANGED <<sf_req, sf_count, sf_issued, sf_closed, sf_listed>>

\* the transport hands the next n bytes of the channel to process_packet
\* and writes back what it returns
SftpReceive ==
    /\ sf_wire # <<>>
    /\ \E n \in (1..MaxChunk) \cup {Len(sf_wire)} :
        /\ n <= Len(sf_wire)
        /\ Received(SubSeq(sf_wire, 1, n),
                    ProcessPacket(sf_st, SubSeq(sf_wire, 1, n)))

\* every string of at most MaxPathLen characters out of `/`, `.` and `m`
MaxPathLen == 6

LetterM == 109

PathStrings ==
    UNION { [1..n -> {Slash, Dot, LetterM}] : n \in 0..MaxPathLen }

\* "/mods/../././config" and "/config"
ExamplePath ==
    <<47, 109, 111, 100, 115, 47, 46, 46, 47, 46, 47, 46, 47,
      99, 111, 110, 102, 105, 103>>

ExampleResult == <<47, 99, 111, 110, 102, 105, 103>>

\* a REALPATH of any of these paths, the one request of its session
SftpRealpathOf ==
    \E id \in RequestIds, path \in PathStrings \cup {ExamplePath} :
        Call([type |-> 16, id |-> id, path |-> path], 1)

(***************************************************************************)
(* SinkPool::push.  The caller reads the clock first, and                  *)
(* push_with_timestamp takes the write lock of the ring afterwards, so     *)
(* pushes through different handles interleave between the two.            *)
(***************************************************************************)
\* the times the clock is seen to advance while pushes are under way
MaxClockTicks == 2

\* Utc::now().timestamp_millis() when the pool is made
PushStartMs == 1

\* pushes that have begun
PushesBegun == s_count + Cardinality({ p \in Producers : s_ppc[p] = "stamped" })

\* push: Utc::now().timestamp_millis(), the argument of push_with_timestamp
PushNow(p) ==
    /\ s_ppc[p] = "idle"
    /\ PushesBegun < MaxPushes
    /\ s_stamp' = [s_stamp EXCEPT ![p] = s_now]
    /\ s_ppc' = [s_ppc EXCEPT ![p] = "stamped"]
    /\ UNCHANGED <<s_buffer, s_dropped, s_sent, s_next, s_since, s_recv, s_lagged,
                   s_pending, s_pushed, s_count, s_pushers, s_now>>

\* push_with_timestamp as push calls it, first half
PushStamped(p) ==
    /\ s_ppc[p] = "stamped"
    /\ AppendEntry(p, s_stamp[p])
    /\ UNCHANGED <<s_now, s_stamp>>

\* push_with_timestamp as push calls it, second half
PushSent(p) == PushSend(p) /\ UNCHANGED <<s_now, s_stamp>>

\* the wall clock moves on
PushClock ==
    /\ s_now < PushStartMs + MaxClockTicks
    /\ s_now' = s_now + 1
    /\ UNCHANGED <<sinkVars, s_stamp>>

\* no push under way, the clock at its start
PushIdle ==
    /\ s_now = PushStartMs
    /\ s_stamp = [p \in Producers |-> 0]

(***************************************************************************)
(* A request stream with packets the handlers cannot parse.                *)
(***************************************************************************)
\* the most packets of a stream that holds malformed ones
MaxCutPackets == 3

\* a complete packet that ends behind its request id
Truncated(req) == Packet(req.type, U32(req.id))

\* well-formed requests, and requests cut behind the id
CutRequests ==
    { [type |-> 3, id |-> 7, path |-> <<Slash>> \o NameF, pflags |-> 1, cut |-> FALSE],
      [type |-> 16, id |-> 7, path |-> <<Slash>> \o NameD, cut |-> FALSE],
      [type |-> 3, id |-> 7, cut |-> TRUE],
      [type |-> 13, id |-> 7, cut |-> TRUE] }

RECURSIVE EncodeCut(_)
EncodeCut(requests) ==
    IF requests = <<>>
    THEN <<>>
    ELSE (IF Head(requests).cut THEN Truncated(Head(requests)) ELSE Encode(Head(requests)))
            \o EncodeCut(Tail(requests))

\* the client writes a stream to the channel of a new session, malformed
\* packets among the well-formed ones
SftpSendCut ==
    /\ sf_wire = <<>> /\ sf_sent = <<>>
    /\ \E n \in 1..MaxCutPackets :
        \E requests \in [1..n -> CutRequests] :
            /\ sf_wire' = EncodeCut(requests)
            /\ sf_req' = [type |-> 0, stream |-> requests]
    /\ UNCHANGED <<sf_st, sf_res, sf_count, sf_issued, sf_closed, sf_listed,
                   sf_sent, sf_out>>

(***************************************************************************)
(* The plugin write handler (router/handlers/plugins.rs, write_file).      *)
(* Requests on one file of one server run concurrently; a request is the   *)
(* sequence of its calls on the filesystem, each of which reads or         *)
(* replaces the whole file at once.  Content is a sequence of bytes.       *)
(***************************************************************************)
\* write requests in flight at once, and the requests made in all
MaxWriters == 2

MaxPluginWrites == 3

PluginWriters == 1..MaxWriters

\* '\n'
NewLine == 10

\* the file as the server left it: "o", or a byte that is not UTF-8
PluginOld == <<111>>

PluginRaw == <<255>>

\* the content of the n-th request: "a", "b", "c"
PluginContent(n) == <<96 + n>>

\* String::from_utf8_lossy(..).into_owned() taken as bytes again: a byte
\* that is no UTF-8 becomes U+FFFD
RECURSIVE FromUtf8Lossy(_)
FromUtf8Lossy(bytes) ==
    IF bytes = <<>>
    THEN <<>>
    ELSE (IF Head(bytes) < 128 THEN <<Head(bytes)>> ELSE <<239, 191, 189>>)
            \o FromUtf8Lossy(Tail(bytes))

\* fs.read_file as the append branch takes it: the content, or the empty
\* string for a file that cannot be read
Existing(file) == IF file.exists THEN FromUtf8Lossy(file.bytes) ELSE <<>>

NoWrite == [content |-> <<>>, append |-> FALSE]

\* write_file entry: validate_server_path, create the parent directory
PluginWriteBegin(w, append) ==
    /\ pw_pc[w] = "idle"
    /\ Len(pw_log) < MaxPluginWrites
    /\ pw_req' = [pw_req EXCEPT ![w] =
                     [content |-> PluginContent(Len(pw_log) + 1), append |-> append]]
    /\ pw_log' = Append(pw_log, [content |-> PluginContent(Len(pw_log) + 1),
                                 append |-> append])
    /\ pw_pc' = [pw_pc EXCEPT ![w] = IF append THEN "read" ELSE "write"]
    /\ pw_buf' = [pw_buf EXCEPT ![w] = PluginContent(Len(pw_log) + 1)]
    /\ UNCHANGED <<pw_file, pw_prev>>

\* the append branch: read the file, push '\n' and the content
PluginWriteRead(w) ==
    /\ pw_pc[w] = "read"
    /\ pw_buf' = [pw_buf EXCEPT ![w] =
                     Existing(pw_file) \o <<NewLine>> \o pw_req[w].content]
    /\ pw_pc' = [pw_pc EXCEPT ![w] = "write"]
    /\ UNCHANGED <<pw_file, pw_prev, pw_req, pw_log>>

\* fs.write_file with the content built, then Ok
PluginWriteStore(w) ==
    /\ pw_pc[w] = "write"
    /\ pw_file' = [exists |-> TRUE, bytes |-> pw_buf[w]]
    /\ pw_pc' = [pw_pc EXCEPT ![w] = "idle"]
    /\ pw_req' = [pw_req EXCEPT ![w] = NoWrite]
    /\ pw_buf' = [pw_buf EXCEPT ![w] = <<>>]
    /\ UNCHANGED <<pw_prev, pw_log>>

\* before any request the server itself rewrites or deletes the file
PluginFileSet(file) ==
    /\ pw_log = <<>>
    /\ pw_file # file
    /\ pw_file' = file
    /\ pw_prev' = file
    /\ UNCHANGED <<pw_pc, pw_req, pw_buf, pw_log>>

PluginFiles ==
    { [exists |-> TRUE, bytes |-> PluginOld], [exists |-> TRUE, bytes |-> PluginRaw],
      [exists |-> FALSE, bytes |-> <<>>] }

PluginIdle ==
    /\ pw_file = [exists |-> TRUE, bytes |-> PluginOld]
    /\ pw_prev = [exists |-> TRUE, bytes |-> PluginOld]
    /\ pw_pc = [w \in PluginWriters |-> "idle"]
    /\ pw_req = [w \in PluginWriters |-> NoWrite]
    /\ pw_buf = [w \in PluginWriters |-> <<>>]
    /\ pw_log = <<>>

(***************************************************************************)
(* The stats pollers (environment/docker/stats.rs): poll_stats, which the  *)
(* caller awaits, and the task start_stats_poller spawns.  Both read the   *)
(* runtime's stats stream; the stream holds at most one item that has not  *)
(* been taken, and the runtime may end it.                                 *)
(***************************************************************************)
\* the items the runtime sends on one stream
MaxFrames == 3

Pollers == {"poll_stats", "start_stats_poller"}

OkFrame == [ok |-> TRUE, variant |-> "", status_code |-> 0, text |-> ""]

ErrFrame(variant, status_code, text) ==
    [ok |-> FALSE, variant |-> variant, status_code |-> status_code, text |-> text]

\* the items of a stats stream: a frame, or an error of the runtime's client
StreamItems ==
    { OkFrame,
      ErrFrame("DockerResponseServerError", 404, "No such container"),
      ErrFrame("DockerResponseServerError", 409, "conflict"),
      ErrFrame("DockerResponseServerError", 500, "container is stopped"),
      ErrFrame("DockerResponseServerError", 500, "internal error"),
      ErrFrame("JsonDataError", 0, "missing field"),
      ErrFrame("IOError", 0, "not running"),
      ErrFrame("IOError", 0, "connection reset") }

\* is_stopped
IsStopped(e) ==
    \/ e.variant = "DockerResponseServerError" /\ e.status_code \in {404, 409}
    \/ e.text \in {"container is stopped", "not running", "No such container"}

\* is_json_error
IsJsonError(e) ==
    \/ e.variant = "JsonDataError"
    \/ e.text \in {"missing field", "Failed to deserialize"}

\* the match on one item: a frame is published, a stop or decode error
\* breaks the loop, any other error is logged
HandleItem(item) ==
    IF item.ok
    THEN /\ pl_published' = pl_published + 1
         /\ UNCHANGED <<pl_pc, pl_warned>>
    ELSE IF IsStopped(item) \/ IsJsonError(item)
         THEN /\ pl_pc' = "returned"
              /\ UNCHANGED <<pl_published, pl_warned>>
         ELSE /\ pl_warned' = pl_warned + 1
              /\ UNCHANGED <<pl_pc, pl_published>>

\* the poller is called or spawned and opens the stream
PollerStart(kind) ==
    /\ pl_pc = "idle"
    /\ pl_kind' = kind
    /\ pl_pc' = "waiting"
    /\ UNCHANGED <<pl_stream, pl_item, pl_frames, pl_cancelled, pl_published, pl_warned>>

\* the runtime sends an item
StreamItem(item) ==
    /\ pl_pc # "idle"
    /\ pl_stream = "open"
    /\ pl_item = None
    /\ pl_frames < MaxFrames
    /\ pl_item' = Some(item)
    /\ pl_frames' = pl_frames + 1
    /\ UNCHANGED <<pl_kind, pl_pc, pl_stream, pl_cancelled, pl_published, pl_warned>>

\* the runtime ends the stream
StreamEnd ==
    /\ pl_pc # "idle"
    /\ pl_stream = "open"
    /\ pl_stream' = "ended"
    /\ UNCHANGED <<pl_kind, pl_pc, pl_item, pl_frames, pl_cancelled, pl_published, pl_warned>>

\* the owner cancels the token
PollerCancel ==
    /\ ~pl_cancelled
    /\ pl_cancelled' = TRUE
    /\ UNCHANGED <<pl_kind, pl_pc, pl_stream, pl_item, pl_frames, pl_published, pl_warned>>

\* poll_stats: stream.next() gave an item; the token is looked at, then the
\* item is matched
PollStatsItem ==
    /\ pl_kind = "poll_stats"
    /\ pl_pc = "waiting"
    /\ pl_item.some
    /\ pl_item' = None
    /\ IF pl_cancelled
       THEN /\ pl_pc' = "returned"
            /\ UNCHANGED <<pl_published, pl_warned>>
       ELSE HandleItem(pl_item.value)
    /\ UNCHANGED <<pl_kind, pl_stream, pl_frames, pl_cancelled>>

\* poll_stats: stream.next() gave None, the while let ends
PollStatsEnd ==
    /\ pl_kind = "poll_stats"
    /\ pl_pc = "waiting"
    /\ ~pl_item.some
    /\ pl_stream = "ended"
    /\ pl_pc' = "returned"
    /\ UNCHANGED <<pl_kind, pl_stream, pl_item, pl_frames, pl_cancelled, pl_published,
                   pl_warned>>

\* start_stats_poller: the select! branch Some(result) = stream.next()
PollerSelectItem ==
    /\ pl_kind = "start_stats_poller"
    /\ pl_pc = "waiting"
    /\ pl_item.some
    /\ pl_item' = None
    /\ HandleItem(pl_item.value)
    /\ UNCHANGED <<pl_kind, pl_stream, pl_frames, pl_cancelled>>

\* start_stats_poller: the select! branch ctx.cancelled()
PollerSelectCancelled ==
    /\ pl_kind = "start_stats_poller"
    /\ pl_pc = "waiting"
    /\ pl_cancelled
    /\ pl_pc' = "returned"
    /\ UNCHANGED <<pl_kind, pl_stream, pl_item, pl_frames, pl_cancelled, pl_published,
                   pl_warned>>

PollerIdle ==
    /\ pl_kind = "poll_stats"
    /\ pl_pc = "idle"
    /\ pl_stream = "open"
    /\ pl_item = None
    /\ pl_frames = 0
    /\ pl_cancelled = FALSE
    /\ pl_published = 0
    /\ pl_warned = 0

(***************************************************************************)
(* calculate_cpu (environment/docker/stats.rs), applied to the frames of   *)
(* one stats stream as the pollers apply it.  The result is kept in        *)
(* thousandths of a percent, the precision it is rounded to; the counters  *)
(* are far below 2^53, where u64 as f64 is exact.                          *)
(***************************************************************************)
\* the frames of one stream
MaxSamples == 2

\* the counters a runtime reports: nanoseconds of a short-lived container,
\* or of one that has run for a while
CounterScales ==
    { {0, 1, 3, 64},
      {0, 100000000, 200000000, 500000000, 1000000000} }

CpuCounts == {0, 1, 4}

PercpuLengths == {0, 2}

\* bollard's CPUStats: cpu_usage.total_usage, cpu_usage.percpu_usage (its
\* length), system_cpu_usage, online_cpus
CPUStats(total_usage, percpu_usage, system_cpu_usage, online_cpus) ==
    [total_usage |-> total_usage, percpu_usage |-> percpu_usage,
     system_cpu_usage |-> system_cpu_usage, online_cpus |-> online_cpus]

Option(S) == {None} \cup { Some(v) : v \in S }

CpuFrames ==
    UNION { { CPUStats(t, p, s, o) :
                t \in scale, p \in Option(PercpuLengths), s \in Option(scale),
                o \in Option(CpuCounts) } : scale \in CounterScales }

UnwrapOr(option, default) == IF option.some THEN option.value ELSE default

RECURSIVE Gcd(_, _)
Gcd(a, b) == IF b = 0 THEN a ELSE Gcd(b, a % b)

\* the half rounded down
RoundMilli_Floor(n, d, k) ==
    LET g == Gcd(n, d)
        num == (n \div g) * k * 1000
        den == d \div g
    IN  num \div den

\* (n / d * k * 1000.0).round() for n, d > 0: the nearest integer, a half
\* away from zero
RoundMilli(n, d, k) ==
    LET g == Gcd(n, d)
        num == (n \div g) * k * 1000
        den == d \div g
    IN  (2 * num + den) \div (2 * den)

\* online_cpus, else the length of percpu_usage, else 1
OnlineCpus(stats) ==
    IF stats.online_cpus.some
    THEN stats.online_cpus.value
    ELSE UnwrapOr(stats.percpu_usage, 1)

calculate_cpu(stats, prev_cpu, prev_system) ==
    LET current_cpu == stats.total_usage
        current_system == UnwrapOr(stats.system_cpu_usage, 0)
    IN  IF prev_cpu.some /\ prev_system.some
        THEN LET cpu_delta == SaturatingSub(current_cpu, prev_cpu.value)
                 system_delta == SaturatingSub(current_system, prev_system.value)
                 cpus == OnlineCpus(stats)
             IN  IF system_delta > 0 /\ cpu_delta > 0
                 THEN RoundMilli(cpu_delta, system_delta, 100 * cpus)
                 ELSE 0
        ELSE 0

\* the counters of a frame and of the one before are of one scale
SameScale(stats) ==
    \E scale \in CounterScales :
        /\ stats.total_usage \in scale
        /\ UnwrapOr(stats.system_cpu_usage, 0) \in scale
        /\ UnwrapOr(cc_prev_cpu, 0) \in scale
        /\ UnwrapOr(cc_prev_system, 0) \in scale

NoSample == [stats |-> CPUStats(0, None, None, None), prev_cpu |-> None,
             prev_system |-> None]

\* a frame arrives: calculate_cpu on it and the previous values, which
\* then become those of this frame
CpuSample(stats) ==
    /\ cc_calls < MaxSamples
    /\ SameScale(stats)
    /\ cc_in' = [stats |-> stats, prev_cpu |-> cc_prev_cpu,
                 prev_system |-> cc_prev_system]
    /\ cc_out' = calculate_cpu(stats, cc_prev_cpu, cc_prev_system)
    /\ cc_prev_cpu' = Some(stats.total_usage)
    /\ cc_prev_system' = stats.system_cpu_usage
    /\ cc_calls' = cc_calls + 1

CpuIdle ==
    /\ cc_prev_cpu = None
    /\ cc_prev_system = None
    /\ cc_in = NoSample
    /\ cc_out = 0
    /\ cc_calls = 0

\* the library components as constructed
LibInit == SinkInit /\ BucketInit /\ CacheInit /\ StatsInit /\ ScheduleInit /\ SftpIdle /\ PushIdle /\ PluginIdle /\ PollerIdle /\ CpuIdle

\* the handlers' part of the state, which the library components do not touch
appVars == <<extractVars, powerVars, transferVars, data_dir, backupVars>>

(***************************************************************************)
(* The specifications: one per part of the daemon, the other parts at      *)
(* rest.                                                                   *)
(***************************************************************************)
Init ==
    /\ ExtractIdle
    /\ PowerInit
    /\ TransferIdle
    /\ BackupIdle
    /\ data_dir = ServerTree
    /\ LibInit

ExtractNext ==
    \/ ExtractEntry /\ UNCHANGED <<powerVars, transferVars, data_dir, backupVars, libVars>>
    \/ ExtractReadError /\ UNCHANGED <<powerVars, transferVars, data_dir, backupVars, libVars>>
    \/ ExtractDone /\ UNCHANGED <<powerVars, transferVars, data_dir, backupVars, libVars>>

\* an extraction about to start, the rest of the daemon at rest
InitExtract ==
    /\ ExtractInit
    /\ PowerInit
    /\ TransferIdle
    /\ BackupIdle
    /\ data_dir = ServerTree
    /\ LibInit

SpecExtract == InitExtract /\ [][ExtractNext]_vars

\* what a power request leaves alone, the transfer flag apart
powerFrame == <<extractVars, archives, tpc, treq, tres, tev, data_dir, backupVars, libVars>>

PowerNext ==
    \/ \E p \in PowerReqs, a \in ActionStrings :
          ControlServer(p, a) /\ UNCHANGED <<is_transferring, powerFrame>>
    \/ \E p \in PowerReqs : PowerStarted(p) /\ UNCHANGED <<is_transferring, powerFrame>>
    \/ \E p \in PowerReqs : PowerStopped(p) /\ UNCHANGED <<is_transferring, powerFrame>>
    \/ \E p \in PowerReqs :
          PowerRestartStopped(p) /\ UNCHANGED <<is_transferring, powerFrame>>
    \/ \E p \in PowerReqs :
          PowerRestartStart(p) /\ UNCHANGED <<is_transferring, powerFrame>>
    \/ \E p \in PowerReqs : PowerReturn(p) /\ UNCHANGED <<is_transferring, powerFrame>>
    \/ TransferFlagChange /\ UNCHANGED powerFrame

SpecPower == Init /\ [][PowerNext]_vars

ServerNext ==
    \/ \E r \in TReqs, id \in TransferIds, upload \in BOOLEAN :
          InitiateTransfer(r, id, upload) /\ UNCHANGED <<extractVars, powerVars, backupVars, libVars>>
    \/ \E r \in TReqs, fault \in CreateFaults :
          InitiateCreated(r, fault) /\ UNCHANGED <<extractVars, powerVars, backupVars, libVars>>
    \/ \E r \in TReqs, http_ok \in BOOLEAN :
          InitiateUploaded(r, http_ok) /\ UNCHANGED <<extractVars, powerVars, backupVars, libVars>>
    \/ \E r \in TReqs, id \in TransferIds, body \in Bodies, sum \in Checksums :
          ReceiveTransfer(r, id, body, sum) /\ UNCHANGED <<extractVars, powerVars, backupVars, libVars>>
    \/ \E r \in TReqs, fault \in ReceiveFaults :
          ReceiveDone(r, fault) /\ UNCHANGED <<extractVars, powerVars, backupVars, libVars>>
    \/ CancelTransfer /\ UNCHANGED <<extractVars, powerVars, backupVars, libVars>>
    \/ CancelNothing /\ UNCHANGED <<extractVars, powerVars, backupVars, libVars>>
    \/ \E r \in TReqs :
          TransferReturn(r) /\ UNCHANGED <<extractVars, powerVars, backupVars, libVars>>
    \/ PowerTransition /\ UNCHANGED <<extractVars, transferVars, data_dir, backupVars, libVars>>

SpecServer == Init /\ [][ServerNext]_vars

BackupNext ==
    \/ \E uuid \in BackupIds, ignore \in IgnoreSets, fault \in BackupFaults :
          HandleCreateBackup(uuid, ignore, fault)
          /\ UNCHANGED <<extractVars, powerVars, transferVars, libVars>>
    \/ \E uuid \in BackupIds, truncate \in BOOLEAN, fault \in RestoreFaults :
          HandleRestoreBackup(uuid, truncate, fault)
          /\ UNCHANGED <<extractVars, powerVars, transferVars, libVars>>
    \/ \E uuid \in BackupIds, remove_ok \in BOOLEAN :
          HandleDeleteBackup(uuid, remove_ok)
          /\ UNCHANGED <<extractVars, powerVars, transferVars, libVars>>
    \/ HandleListBackups /\ UNCHANGED <<extractVars, powerVars, transferVars, libVars>>
    \/ BackupReturn /\ UNCHANGED <<extractVars, powerVars, transferVars, libVars>>
    \/ \E p \in EnvPaths, node \in EnvNodes :
          EnvWrite(p, node) /\ UNCHANGED <<extractVars, powerVars, transferVars, libVars>>
    \/ PowerTransition /\ UNCHANGED <<extractVars, transferVars, data_dir, backupVars, libVars>>

SpecBackup == Init /\ [][BackupNext]_vars

(***************************************************************************)
(* C2.  receive_transfer_archive with a body whose sha256 differs from the *)
(* expected checksum: the call fails with ChecksumMismatch, the temporary  *)
(* archive file is removed and data_dir is left as it was.                 *)
(***************************************************************************)
\* the step in which request r's receive_transfer_archive runs
C2_Receives(r) == tpc[r] = "receiving" /\ tpc'[r] = "done"

C2_Mismatch(r) == Sha256(treq[r].body) # treq[r].expected

\* C2 as the specification states it
C2_AsStated ==
    [][\A r \in TReqs :
          C2_Receives(r) /\ C2_Mismatch(r) =>
              /\ tres'[r] = "ChecksumMismatch"
              /\ ~archives'[treq[r].id].exists
              /\ data_dir' = data_dir]_vars

\* C2 as the code has it: on a mismatch the call fails and data_dir is left
\* as it was, nothing being truncated or extracted before the checksum is
\* verified; it fails with ChecksumMismatch, the temporary file removed,
\* unless saving, hashing or removing the file has failed, and then with Io
C2_ChecksumFirst ==
    [][\A r \in TReqs :
          C2_Receives(r) /\ C2_Mismatch(r) =>
              /\ tres'[r] \in {"ChecksumMismatch", "Io"}
              /\ tres'[r] = "ChecksumMismatch" => ~archives'[treq[r].id].exists
              /\ data_dir' = data_dir
              /\ LET clean == ReceiveTransferArchive(
                                  data_dir, archives[treq[r].id], treq[r].body,
                                  treq[r].expected, TRUE, Fault("none", 0))
                 IN  clean.result = "ChecksumMismatch" /\ ~clean.file.exists]_vars

C2_Witness ==
    \E r \in TReqs :
        /\ tpc[r] = "done"
        /\ tres[r] = "ChecksumMismatch"
        /\ ~archives["t1"].exists
        /\ data_dir = ServerTree

(***************************************************************************)
(* C3.  At most one transfer operation of the server is in flight at any   *)
(* time, whatever the interleaving of initiate_transfer, receive_transfer  *)
(* and cancel_transfer.                                                    *)
(***************************************************************************)
C3_InFlight == { r \in TReqs : tpc[r] \in {"creating", "uploading", "receiving"} }

C3_AtMostOne == Cardinality(C3_InFlight) <= 1

(***************************************************************************)
(* C4.  Every exit of initiate_transfer and receive_transfer that had      *)
(* taken the transfer lock leaves is_transferring false, and the flag is   *)
(* never up without a transfer in flight: no request is turned away        *)
(* because of a transfer that has finished.                                *)
(***************************************************************************)
C4_Released ==
    /\ [](is_transferring => C3_InFlight # {})
    /\ [][\A r \in TReqs :
             r \in C3_InFlight /\ tpc'[r] = "done" => ~is_transferring']_vars

C4_Witness ==
    \E r \in TReqs :
        /\ tpc[r] = "done"
        /\ tres[r] \in {"Io", "Archive", "Http"}
        /\ C3_InFlight = {}
        /\ ~is_transferring

C6_Completed ==
    bpc = "done" /\ breq.op = "create" =>
        /\ Len(bevents) = 2
        /\ bevents[1] = BackupStarted(breq.uuid)
        /\ bevents[2] = BackupCompleted(breq.uuid, bresult.status = "Ok",
                                        bresult.checksum, bresult.size)

(***************************************************************************)
(* C7.  A create_backup that fails after the archive file was created      *)
(* leaves no file of that backup in the backup directory, and list_backups *)
(* does not report the backup.                                             *)
(***************************************************************************)
C7_NoPartialFile ==
    /\ bpc = "done" /\ breq.op = "create"
    /\ bresult.status # "Ok" /\ breq.fault \notin {"mkdir", "create"}
    => /\ ~backup_dir[BackupFileName(breq.uuid)].exists
       /\ \A b \in ListBackups(backup_dir) : b.uuid # <<breq.uuid>>

(***************************************************************************)
(* C8.  After a successful create_backup the archive file is finished, the *)
(* checksum returned is the sha256 of that file and the size returned is   *)
(* its length.                                                             *)
(***************************************************************************)
C8_ChecksumOfFile ==
    bpc = "done" /\ breq.op = "create" /\ bresult.status = "Ok" =>
        LET file == backup_dir[BackupFileName(breq.uuid)]
        IN  /\ file.exists /\ file.complete
            /\ bresult.checksum = Sha256(file)
            /\ bresult.size = FileLen(file)

C8_Witness ==
    /\ bpc = "done" /\ breq.op = "create" /\ bresult.status = "Ok"
    /\ Len(backup_dir[BackupFileName(breq.uuid)].entries) = 2
    /\ bresult.size = 3

(***************************************************************************)
(* C9.  A successful restore_backup with truncate of a backup taken with   *)
(* no ignore patterns leaves the data directory as it was when the backup  *)
(* was taken, whatever was written to it in between.                       *)
(***************************************************************************)
C9_RoundTrip ==
    /\ bpc = "done" /\ breq.op = "restore" /\ breq.truncate
    /\ bresult.status = "Ok" /\ taken[breq.uuid].valid
    => data_dir = taken[breq.uuid].tree

(***************************************************************************)
(* C10.  Every restore_backup call that has published BackupRestoreStarted *)
(* publishes exactly one BackupRestoreCompleted, unsuccessful when the     *)
(* call fails.                                                             *)
(***************************************************************************)
C10_Completed ==
    /\ bpc = "done" /\ breq.op = "restore"
    /\ bevents # <<>> /\ bevents[1] = BackupRestoreStarted(breq.uuid)
    => /\ Len(bevents) = 2
       /\ bevents[2] = BackupRestoreCompleted(breq.uuid, bresult.status = "Ok")

(***************************************************************************)
(* C11.  Every receive_transfer request that took the transfer lock has    *)
(* published exactly one TransferCompleted when it returns: successful     *)
(* when the archive was extracted, unsuccessful when the call failed.      *)
(***************************************************************************)
C11_Completed ==
    [][\A r \in TReqs :
          tpc[r] = "receiving" /\ tpc'[r] = "done" =>
              tev'[r] = <<TransferCompleted(tres'[r] = "Ok")>>]_vars

(***************************************************************************)
(* The library components, each under a specification of its own.          *)
(***************************************************************************)
sinkFrame == <<appVars, bucketVars, cacheVars, statsVars, scheduleVars, sftpVars, pushVars, pluginVars, pollerVars, cpuVars>>

SinkNext ==
    \/ \E p \in Producers, t \in Timestamps :
          PushAppend(p, t) /\ UNCHANGED sinkFrame
    \/ \E p \in Producers : PushSend(p) /\ UNCHANGED sinkFrame
    \/ ClearBuffer /\ UNCHANGED sinkFrame
    \/ \E u \in Subscribers : Subscribe(u) /\ UNCHANGED sinkFrame
    \/ \E u \in Subscribers : Unsubscribe(u) /\ UNCHANGED sinkFrame
    \/ \E u \in Subscribers : Recv(u) /\ UNCHANGED sinkFrame

SpecSink == Init /\ [][SinkNext]_vars

(***************************************************************************)
(* C12.  Whatever was pushed and cleared through the handles of a          *)
(* SinkPool, get_history holds at most buffer_size entries: the most       *)
(* recent pushes since the last clear_buffer, oldest first, the oldest     *)
(* entry having made room on overflow; and a push call has its entry in    *)
(* the ring before its data goes to the channel.                           *)
(***************************************************************************)
C12_LastN(seq, n) == SubSeq(seq, IF Len(seq) > n THEN Len(seq) - n + 1 ELSE 1, Len(seq))

C12_Appending == { p \in Producers : s_ppc[p] = "appended" }

C13_DropCounted == \A u \in Subscribers : Lags(u) => s_dropped > 0

(***************************************************************************)
(* C14.  A subscriber that has never lagged has received the values sent   *)
(* after its subscribe call, each once and in the order sent, which for a  *)
(* single producer is the order pushed; every subscriber has its own       *)
(* copy; and a push call can always finish, subscribers or none.           *)
(***************************************************************************)
C14_InOrder ==
    /\ \A u \in Subscribers :
          s_next[u] # NotSubscribed /\ ~s_lagged[u] /\ ~Lags(u) =>
              /\ s_since[u] <= s_next[u] /\ s_next[u] <= Len(s_sent)
              /\ s_recv[u] = SubSeq(s_sent, s_since[u] + 1, s_next[u])
    /\ Cardinality(s_pushers) <= 1 =>
          \A i \in 1..Len(s_sent) : s_sent[i] = i
    /\ \A p \in Producers : s_ppc[p] = "appended" => ENABLED PushSend(p)

C14_Witness ==
    /\ s_pushers = {1}
    /\ s_recv[1] = <<2, 3>> /\ ~s_lagged[1]
    /\ s_recv[2] = <<3>> /\ ~s_lagged[2]
    /\ s_ppc[1] = "idle"

bucketFrame == <<appVars, sinkVars, cacheVars, statsVars, scheduleVars, sftpVars, pushVars, pluginVars, pollerVars, cpuVars>>

BucketNext ==
    \/ \E c \in Callers, kind \in CallKinds, needed \in 1..MaxNeeded :
          BucketCall(c, kind, needed) /\ UNCHANGED bucketFrame
    \/ \E c \in Callers : RefillCheck(c) /\ UNCHANGED bucketFrame
    \/ \E c \in Callers : RefillStoreLast(c) /\ UNCHANGED bucketFrame
    \/ \E c \in Callers : RefillLoad(c) /\ UNCHANGED bucketFrame
    \/ \E c \in Callers, checked \in BOOLEAN :
          RefillStore(c, checked) /\ UNCHANGED bucketFrame
    \/ \E c \in Callers : AcquireLoad(c) /\ UNCHANGED bucketFrame
    \/ \E c \in Callers : AcquireSub(c) /\ UNCHANGED bucketFrame
    \/ \E d \in TickSteps : Tick(d) /\ UNCHANGED bucketFrame

SpecBucket == Init /\ [][BucketNext]_vars

(***************************************************************************)
(* C15.  While the calls on a TokenBucket have come one after another,     *)
(* the token count is between 0 and capacity, and the successful           *)
(* try_acquire(1) calls that fall in any interval of D seconds number at   *)
(* most capacity + D * rate.                                               *)
(***************************************************************************)
C15_Sequential == ~b_overlap

C15_TokensInRange == b_tokens >= 0 /\ b_tokens <= Capacity

C15_Singles(i, j) == Cardinality({ k \in i..j : b_log[k].needed = 1 })

C15_RateBound ==
    \A i \in 1..Len(b_log) : \A j \in i..Len(b_log) :
        b_log[i].needed = 1 /\ b_log[j].needed = 1 =>
            C15_Singles(i, j) * RefillIntervalMs <=
                Capacity * RefillIntervalMs + (b_log[j].at - b_log[i].at) * Rate

C15_Limited == C15_Sequential => C15_TokensInRange /\ C15_RateBound

(***************************************************************************)
(* C16.  A try_acquire(n) that returns true found at least n tokens and    *)
(* lowered the count by exactly n; one that returns false found fewer and  *)
(* left the count alone; and once capacity tokens have been taken from a   *)
(* bucket that was never refilled, try_acquire(1) returns false.           *)
(***************************************************************************)
C16_Taken_Sum[k \in 0..MaxCalls] ==
    IF k = 0 THEN 0 ELSE C16_Taken_Sum[k - 1] + b_log[k].needed

C16_Drained == b_last = StartMs /\ C16_Taken_Sum[Len(b_log)] >= Capacity

C16_Acquire ==
    [][\A c \in Callers :
          /\ b_pc[c] = "sub" /\ b_pc'[c] = "idle" =>
                /\ b_tokens >= b_call[c].needed
                /\ b_tokens' = b_tokens - b_call[c].needed
                /\ b_res'[c] = "true"
          /\ b_pc[c] = "load" /\ b_pc'[c] = "idle" /\ b_call[c].kind = "try_acquire" =>
                /\ b_tokens < b_call[c].needed
                /\ b_tokens' = b_tokens
                /\ b_res'[c] = "false"
          /\ (b_pc[c] = "load" /\ b_pc'[c] # "load" /\ C16_Drained
                /\ b_call[c].kind = "try_acquire") =>
                b_res'[c] = "false"]_vars

(***************************************************************************)
(* C34.  When try_acquire is called through several clones of a            *)
(* TokenBucket at once, the token count never wraps below zero, and the    *)
(* tokens granted in all never exceed the capacity plus the rate for       *)
(* every refill interval that has elapsed since the bucket was made, an    *)
(* interval being credited at most once.                                   *)
(***************************************************************************)
C34_Granted[k \in 0..MaxCalls] ==
    IF k = 0 THEN 0 ELSE C34_Granted[k - 1] + b_log[k].needed

C34_Elapsed == (b_now - StartMs) \div RefillIntervalMs

C34_NoUnderflow == ~IsWrapped(b_tokens)

C34_GrantedBound == C34_Granted[Len(b_log)] <= Capacity + C34_Elapsed * Rate

C34_ConcurrentAcquire == C34_NoUnderflow /\ C34_GrantedBound

cacheFrame == <<appVars, sinkVars, bucketVars, statsVars, scheduleVars, sftpVars, pushVars, pluginVars, pollerVars, cpuVars>>

CacheNext ==
    \/ \E p \in CachePaths : CacheGet(p) /\ UNCHANGED cacheFrame
    \/ \E p \in CachePaths, entries \in Listings :
          CachePut(p, entries) /\ UNCHANGED cacheFrame
    \/ \E p \in CachePaths : CacheInvalidate(p) /\ UNCHANGED cacheFrame
    \/ CacheClear /\ UNCHANGED cacheFrame
    \/ CacheTick /\ UNCHANGED cacheFrame

SpecCache == Init /\ [][CacheNext]_vars

(***************************************************************************)
(* C17.  get(p) returns None when p is not cached or its entry is at       *)
(* least ttl old, and the stored entries otherwise; invalidate(p) removes  *)
(* p and parent(p) and no other path, and a removed path stays absent      *)
(* until it is put again.                                                   *)
(***************************************************************************)
C17_Op(name) == dc_seq' # dc_seq /\ dc_op'.op = name

C17_GetInvalidate ==
    [][/\ C17_Op("get") =>
            LET p == dc_op'.path IN
            /\ dc_cache' = dc_cache
            /\ ~dc_cache[p].cached \/ dc_now - dc_cache[p].cached_at >= Ttl
                  => dc_got' = None
            /\ dc_cache[p].cached /\ dc_now - dc_cache[p].cached_at < Ttl
                  => dc_got' = Some(dc_cache[p].entries)
       /\ C17_Op("invalidate") =>
            LET p == dc_op'.path IN
            \A q \in CachePaths :
                IF q = p \/ (p # <<>> /\ q = SubSeq(p, 1, Len(p) - 1))
                THEN ~dc_cache'[q].cached
                ELSE dc_cache'[q] = dc_cache[q]
       /\ \A q \in CachePaths :
            ~dc_cache[q].cached /\ dc_cache'[q].cached =>
                C17_Op("put") /\ dc_op'.path = q]_vars

C17_Witness ==
    /\ dc_op = [op |-> "get", path |-> <<"a">>]
    /\ dc_got = None
    /\ dc_cache[<<"a">>].cached
    /\ dc_cache[<<"c">>].cached
    /\ ~dc_cache[<<>>].cached

(***************************************************************************)
(* C18.  The cache never holds more than max_entries paths; a put of a     *)
(* path that is not cached into a full cache removes exactly one entry,    *)
(* one whose cached_at is the oldest, and the path put is cached           *)
(* afterwards.                                                             *)
(***************************************************************************)
C18_AtMost == Cardinality(CachedPaths(dc_cache)) <= MaxCacheEntries

C18_Evicts ==
    [][dc_seq' # dc_seq /\ dc_op'.op = "put" =>
          LET p == dc_op'.path
              before == CachedPaths(dc_cache)
              after == CachedPaths(dc_cache')
          IN  /\ p \in after
              /\ dc_cache'[p].cached_at = dc_now
              /\ p \notin before /\ Cardinality(before) = MaxCacheEntries =>
                    \E old \in before :
                        /\ after = (before \ {old}) \cup {p}
                        /\ \A o \in before :
                              dc_cache[old].cached_at <= dc_cache[o].cached_at
                        /\ \A o \in before \ {old} : dc_cache'[o] = dc_cache[o]]_vars

C18_Bounded == []C18_AtMost /\ C18_Evicts

C18_Witness ==
    /\ dc_op = [op |-> "put", path |-> <<"c">>]
    /\ dc_seq = 3
    /\ dc_cache[<<"c">>].cached /\ dc_cache[<<"c">>].cached_at = 2
    /\ dc_cache[<<"a", "b">>].cached /\ dc_cache[<<"a", "b">>].cached_at = 1
    /\ ~dc_cache[<<"a">>].cached

(***************************************************************************)
(* C39.  A put of a path that is already cached replaces the entry of      *)
(* that path, with a fresh cached_at, and evicts no other path, also when  *)
(* the cache is at capacity: the set of cached paths is as before.         *)
(***************************************************************************)
C39_ReplaceInPlace ==
    [][dc_seq' # dc_seq /\ dc_op'.op = "put" /\ dc_op'.path \in CachedPaths(dc_cache) =>
          /\ CachedPaths(dc_cache') = CachedPaths(dc_cache)
          /\ dc_cache'[dc_op'.path].cached_at = dc_now
          /\ \A o \in CachePaths \ {dc_op'.path} : dc_cache'[o] = dc_cache[o]]_vars

statsFrame == <<appVars, sinkVars, bucketVars, cacheVars, scheduleVars, sftpVars, pushVars, pluginVars, pollerVars, cpuVars>>

StatsNext ==
    \/ \E redis_ok \in BOOLEAN : StatsNew(redis_ok) /\ UNCHANGED statsFrame
    \/ \E u \in Uuids, stats \in StatsValues, conn_ok \in BOOLEAN :
          StatsPush(u, stats, conn_ok) /\ UNCHANGED statsFrame
    \/ \E u \in Uuids, conn_ok \in BOOLEAN :
          StatsGetHistory(u, conn_ok) /\ UNCHANGED statsFrame
    \/ \E u \in Uuids, conn_ok \in BOOLEAN :
          StatsClear(u, conn_ok) /\ UNCHANGED statsFrame
    \/ \E d \in StatsTickSteps : StatsTick(d) /\ UNCHANGED statsFrame

SpecStats == Init /\ [][StatsNext]_vars

(***************************************************************************)
(* C19.  Every entry get_history returns is no older than the window:      *)
(* its timestamp is at least now - 3 minutes, whenever the server was      *)
(* last pushed to.                                                         *)
(***************************************************************************)
C19_InWindow ==
    [][sb_seq' # sb_seq /\ sb_op'.op = "get_history" =>
          \A i \in 1..Len(sb_hist') :
              sb_hist'[i].timestamp >= sb_now - BufferDurationMs]_vars

scheduleFrame == <<appVars, sinkVars, bucketVars, cacheVars, statsVars, sftpVars, pushVars, pluginVars, pollerVars, cpuVars>>

ScheduleNext ==
    \/ \E tasks \in TaskLists : ScheduleBegin(tasks) /\ UNCHANGED scheduleFrame
    \/ TaskBegin /\ UNCHANGED scheduleFrame
    \/ TaskRejected /\ UNCHANGED scheduleFrame
    \/ TaskSlept /\ UNCHANGED scheduleFrame
    \/ \E e \in OtherEvents : BusPublish(e) /\ UNCHANGED scheduleFrame
    \/ \E ok \in BOOLEAN : TaskExecuted(ok) /\ UNCHANGED scheduleFrame
    \/ WaitRecv /\ UNCHANGED scheduleFrame
    \/ WaitTimeout /\ UNCHANGED scheduleFrame
    \/ ScheduleEnd /\ UNCHANGED scheduleFrame
    \/ ScheduleReturn /\ UNCHANGED scheduleFrame
    \/ UpdateStatus /\ UNCHANGED scheduleFrame

SpecSchedule == Init /\ [][ScheduleNext]_vars

(***************************************************************************)
(* C20.  The tasks of a schedule start in ascending order of their         *)
(* sequence field, whatever their order in the list, and a task starts     *)
(* only once the task before it has finished.                              *)
(***************************************************************************)
C20_SequenceOf(i) == sc_tasks[sc_log[i].task].sequence

C20_OneAtATime ==
    \A i \in 1..Len(sc_log) :
        sc_log[i].step = (IF i % 2 = 1 THEN "started" ELSE "finished")
        /\ (i % 2 = 0 => sc_log[i].task = sc_log[i - 1].task)

C20_InSequence ==
    /\ C20_OneAtATime
    /\ \A i, j \in 1..Len(sc_log) :
          i < j /\ sc_log[i].step = "started" /\ sc_log[j].step = "started" =>
              C20_SequenceOf(i) < C20_SequenceOf(j)

(***************************************************************************)
(* C21.  In both trigger modes a command task that fails is passed over    *)
(* and the loop goes on; a task of any other action that fails is the      *)
(* last task of the run, which returns Err.                                *)
(***************************************************************************)
C21_Failures == {"failed", "unsuccessful", "timeout", "lagged"}

C21_Finished == { i \in 1..Len(sc_log) : sc_log[i].step = "finished" }

C21_TaskOf(i) == sc_tasks[sc_log[i].task]

C21_FailurePolicy ==
    \A i \in C21_Finished :
        sc_log[i].outcome \in C21_Failures =>
            IF C21_TaskOf(i).action = "command"
            THEN /\ i = Len(sc_log) => sc_result # "Err" /\ sc_pc # "waiting"
                 /\ i < Len(sc_log) => sc_log[i + 1].step = "started"
            ELSE /\ i = Len(sc_log)
                 /\ sc_result = "Err"
                 /\ sc_pc \in {"returned", "idle"}

C21_Witness ==
    /\ Len(sc_log) = 4
    /\ sc_log[2].outcome = "failed"
    /\ sc_tasks[1].action = "command" /\ sc_tasks[1].trigger_mode = "ON_COMPLETION"
    /\ sc_log[4].outcome = "failed"
    /\ sc_tasks[2].action = "power_stop" /\ sc_tasks[2].trigger_mode = "TIME_DELAY"
    /\ sc_result = "Err"

(***************************************************************************)
(* C22.  A run of execute_schedule_tasks that has returned, normally or    *)
(* aborted, published ScheduleExecuting without a task index first and     *)
(* last, and last notified the control plane without a task index.         *)
(***************************************************************************)
C22_IdleAtEnd ==
    sc_pc = "returned" =>
        /\ Len(sc_events) >= 2
        /\ sc_events[1] = ScheduleExecuting(NoIndex)
        /\ sc_events[Len(sc_events)] = ScheduleExecuting(NoIndex)
        /\ sc_notify # <<>>
        /\ sc_notify[Len(sc_notify)] = NoIndex

(***************************************************************************)
(* C23.  The wait of an ON_COMPLETION task whose action ran ends at the    *)
(* first matching event or by the 600 second timeout, and no event         *)
(* published after the subscription is lost to it.                         *)
(***************************************************************************)
C23_WaitEnds ==
    /\ ~sc_lagged
    /\ \A i \in C21_Finished :
          /\ C21_TaskOf(i).trigger_mode = "ON_COMPLETION"
          /\ C21_TaskOf(i).action \in Waitable
          /\ sc_log[i].outcome # "failed"
          => sc_log[i].outcome \in {"matched", "unsuccessful", "timeout"}

(***************************************************************************)
(* C24.  An ON_COMPLETION backup task whose backup succeeded ends with     *)
(* set_backup_status called for the backup this task made, and the loop    *)
(* goes on.                                                                 *)
(***************************************************************************)
C24_OwnBackup ==
    \A i \in C21_Finished :
        /\ C21_TaskOf(i).trigger_mode = "ON_COMPLETION"
        /\ C21_TaskOf(i).action = "backup"
        /\ sc_log[i].outcome # "failed"
        => /\ sc_log[i].reported = sc_log[i].task
           /\ sc_log[i].outcome = "matched"

(***************************************************************************)
(* C35.  After execute_schedule_tasks has returned, with Ok or with Err,   *)
(* the tracker's entry of the schedule, if there is one, has is_executing  *)
(* false and no executing task index, and its last_result is "success"     *)
(* for a completed run and "failed" for an aborted one.                    *)
(***************************************************************************)
C35_Finished ==
    sc_pc = "returned" /\ sc_status.exists =>
        /\ ~sc_status.is_executing
        /\ sc_status.executing_task_index = None
        /\ sc_status.last_result = Some(IF sc_result = "Ok" THEN "success" ELSE "failed")

(***************************************************************************)
(* C36.  A receiver that has lost events to drop-on-lag while an           *)
(* ON_COMPLETION task waits does not fail the task: no wait ends with an   *)
(* error because of the lag, the executor waits on for the matching event  *)
(* or the timeout.                                                         *)
(***************************************************************************)
C36_LagTolerated ==
    \A i \in 1..Len(sc_log) :
        sc_log[i].step = "finished" => sc_log[i].outcome # "lagged"

sftpFrame == <<appVars, sinkVars, bucketVars, cacheVars, statsVars, scheduleVars, pushVars, pluginVars, pollerVars, cpuVars>>

(***************************************************************************)
(* The SFTP session.                                                       *)
(***************************************************************************)
InitSftp ==
    /\ ExtractIdle
    /\ PowerInit
    /\ TransferIdle
    /\ BackupIdle
    /\ data_dir = ServerTree
    /\ SinkInit /\ BucketInit /\ CacheInit /\ StatsInit /\ ScheduleInit /\ PushIdle /\ PluginIdle /\ PollerIdle /\ CpuIdle
    /\ SftpInit

SftpNext ==
    \/ SftpInitRequest /\ UNCHANGED sftpFrame
    \/ SftpOpen /\ UNCHANGED sftpFrame
    \/ SftpClose /\ UNCHANGED sftpFrame
    \/ SftpRead /\ UNCHANGED sftpFrame
    \/ SftpWrite /\ UNCHANGED sftpFrame
    \/ SftpStat /\ UNCHANGED sftpFrame
    \/ SftpFstat /\ UNCHANGED sftpFrame
    \/ SftpSetstat /\ UNCHANGED sftpFrame
    \/ SftpOpendir /\ UNCHANGED sftpFrame
    \/ SftpReaddir /\ UNCHANGED sftpFrame
    \/ SftpRemove /\ UNCHANGED sftpFrame
    \/ SftpMkdir /\ UNCHANGED sftpFrame
    \/ SftpRmdir /\ UNCHANGED sftpFrame
    \/ SftpRealpath /\ UNCHANGED sftpFrame
    \/ SftpRename /\ UNCHANGED sftpFrame
    \/ SftpReadlink /\ UNCHANGED sftpFrame
    \/ SftpSymlink /\ UNCHANGED sftpFrame

SpecSftp == InitSftp /\ [][SftpNext]_vars

(***************************************************************************)
(* The life of the handles of a session.                                   *)
(***************************************************************************)
HandlesNext ==
    \/ OpenSome /\ UNCHANGED sftpFrame
    \/ UseHandle /\ UNCHANGED sftpFrame
    \/ CloseHandle /\ UNCHANGED sftpFrame

SpecHandles == InitSftp /\ [][HandlesNext]_vars

(***************************************************************************)
(* The framing of a request stream.                                        *)
(***************************************************************************)
FramingNext ==
    \/ SftpSend /\ UNCHANGED sftpFrame
    \/ SftpReceive /\ UNCHANGED sftpFrame

SpecFraming == InitSftp /\ [][FramingNext]_vars

(***************************************************************************)
(* REALPATH over all short paths.                                          *)
(***************************************************************************)
RealpathNext == SftpRealpathOf /\ UNCHANGED sftpFrame

SpecRealpath == InitSftp /\ [][RealpathNext]_vars

(***************************************************************************)
(* C25.  However a stream of well-formed SFTP packets is cut into the      *)
(* chunks of successive process_packet calls, the responses returned so    *)
(* far, concatenated, and the session are those of one call with all the   *)
(* bytes handed over so far: each complete packet was handled once, in     *)
(* order, and the incomplete tail waits in the buffer without a response.  *)
(***************************************************************************)
C25_OneCall ==
    ProcessPacket(NewSession(sf_st.read_only, sf_st.user, sf_st.fs.extra), sf_sent)

C25_AnyChunking ==
    /\ sf_res.ok
    /\ sf_out = C25_OneCall.resp
    /\ sf_st = C25_OneCall.st
    /\ Len(sf_st.buffer) >= 5 => Len(sf_st.buffer) < 4 + FromBe(sf_st.buffer, 0)

\* a packet was answered, the next one is in the buffer in part, and the
\* rest of it is still on the channel
C25_Witness ==
    /\ sf_out # <<>>
    /\ sf_st.buffer # <<>>
    /\ sf_wire # <<>>
    /\ sf_st.handles # <<>>

(***************************************************************************)
(* C26.  In a read-only session no request changes the volume, and an      *)
(* OPEN with the WRITE, CREAT or TRUNC bit, a WRITE, a REMOVE, a MKDIR, a  *)
(* RMDIR and a RENAME are answered with status 3 and leave the session as  *)
(* it was, whatever the user may do.                                       *)
(***************************************************************************)
C26_Writes(req) ==
    \/ req.type = 3 /\ (Bit(req.pflags, 2) \/ Bit(req.pflags, 8) \/ Bit(req.pflags, 16))
    \/ req.type \in {6, 13, 14, 15, 18}

C26_ReadOnlyStep ==
    (sf_st.read_only /\ sf_count' = sf_count + 1) =>
        /\ sf_st'.fs = sf_st.fs
        /\ C26_Writes(sf_req') => (StatusIs(sf_res', 3) /\ sf_st' = sf_st)

C26_ReadOnly == [][C26_ReadOnlyStep]_vars

\* a WRITE on an open file handle of a user with every permission, denied
C26_Witness ==
    /\ sf_st.read_only
    /\ sf_st.user = Permissions
    /\ sf_req.type = 6
    /\ HandleKind(sf_st, sf_req.handle) = "File"
    /\ StatusIs(sf_res, 3)

(***************************************************************************)
(* C27.  A request with a path whose resolution leaves the server root is  *)
(* answered with status 3 and changes neither the volume nor the handle    *)
(* table: OPEN, LSTAT, STAT, SETSTAT, OPENDIR, REMOVE, MKDIR, RMDIR,       *)
(* REALPATH, RENAME (either path) and READLINK.                            *)
(***************************************************************************)
C27_Resolved(path) == Collapse(Components(path), <<>>)

\* the path leads through the link that leaves the root
C27_Leaves(fs, path) ==
    \E k \in 1..Len(C27_Resolved(path)) :
        FsKind(fs, SubSeq(C27_Resolved(path), 1, k)) = "link"

C27_Escapes(fs, req) ==
    \/ C27_Leaves(fs, req.path)
    \/ req.type = 18 /\ C27_Leaves(fs, req.new_path)

C27_DeniedStep(types) ==
    (/\ sf_count' = sf_count + 1
     /\ sf_req'.type \in types
     /\ C27_Escapes(sf_st.fs, sf_req')) =>
        (StatusIs(sf_res', 3) /\ sf_st' = sf_st)

C27_EscapeDenied == [][C27_DeniedStep({3, 7, 17, 9, 11, 13, 14, 15, 16, 18, 19})]_vars

(***************************************************************************)
(* C27, as the handler has it.  The requests that resolve their path       *)
(* (OPEN, LSTAT, STAT, OPENDIR, REMOVE, MKDIR, RMDIR, RENAME for either    *)
(* path, READLINK) answer an escaping path with status 3 and change        *)
(* nothing.  SETSTAT resolves nothing and answers status 0; REALPATH       *)
(* answers with the normalized name; neither changes anything.             *)
(***************************************************************************)
C27_UnresolvedStep ==
    (/\ sf_count' = sf_count + 1
     /\ sf_req'.type \in {9, 16}
     /\ C27_Escapes(sf_st.fs, sf_req')) =>
        /\ sf_st' = sf_st
        /\ sf_req'.type = 9 => StatusIs(sf_res', 0)
        /\ sf_req'.type = 16 =>
            /\ sf_res'.ok
            /\ Len(sf_res'.resp) = 1
            /\ sf_res'.resp[1].type = 104
            /\ sf_res'.resp[1].entries[1].name = Normalize(sf_req'.path)

C27_EscapeDeniedWhereResolved ==
    [][C27_DeniedStep({3, 7, 17, 11, 13, 14, 15, 18, 19}) /\ C27_UnresolvedStep]_vars

\* a RENAME by a user who may write, in a session that is not read-only,
\* of a file to a name behind the link
C27_Witness ==
    /\ ~sf_st.read_only
    /\ sf_st.user = Permissions
    /\ sf_req.type = 18
    /\ FsKind(sf_st.fs, C27_Resolved(sf_req.path)) = "file"
    /\ C27_Leaves(sf_st.fs, sf_req.new_path)
    /\ StatusIs(sf_res, 3)
    /\ sf_st.handles # <<>>

(***************************************************************************)
(* C28.  Every handle a session is given by OPEN or OPENDIR is a token it  *)
(* was not given before (h1, h2, ... in the order given), also when        *)
(* handles were closed in between; and a READ, WRITE, FSTAT, READDIR or    *)
(* CLOSE on a handle that was closed is answered with status 4.            *)
(***************************************************************************)
C28_Fresh ==
    /\ \A i, j \in 1..Len(sf_issued) : i # j => sf_issued[i] # sf_issued[j]
    /\ \A i \in 1..Len(sf_issued) : sf_issued[i] = <<LetterH, 48 + i>>

C28_OnClosed ==
    /\ sf_count' = sf_count + 1
    /\ sf_req'.type \in {4, 5, 6, 8, 12}
    /\ sf_req'.handle \in sf_closed

C28_ClosedStep == C28_OnClosed => StatusIs(sf_res', 4)

C28_FreshHandles == []C28_Fresh /\ [][C28_ClosedStep]_vars

(***************************************************************************)
(* C28, as the handler has it.  The tokens are fresh as stated.  On a      *)
(* closed handle READ, FSTAT, READDIR and CLOSE are answered with status   *)
(* 4; a WRITE is answered with status 4 in a session that is not           *)
(* read-only and whose user may write, and with status 3 otherwise, the    *)
(* permission being tested before the handle is looked up.                 *)
(***************************************************************************)
C28_ClosedOrDeniedStep ==
    C28_OnClosed =>
        IF sf_req'.type = 6 /\ (sf_st.read_only \/ "write" \notin sf_st.user)
        THEN StatusIs(sf_res', 3)
        ELSE StatusIs(sf_res', 4)

C28_FreshHandlesDenied == []C28_Fresh /\ [][C28_ClosedOrDeniedStep]_vars

\* h1 was closed, h2 is open, and a WRITE on h1 by a user who may write is
\* answered with status 4
C28_Witness ==
    /\ sf_issued = <<<<LetterH, 49>>, <<LetterH, 50>>>>
    /\ sf_closed = {<<LetterH, 49>>}
    /\ DOMAIN sf_st.handles = {<<LetterH, 50>>}
    /\ sf_req.type = 6
    /\ sf_req.handle = <<LetterH, 49>>
    /\ ~sf_st.read_only
    /\ StatusIs(sf_res, 4)

(***************************************************************************)
(* C29.  The READDIR requests on a directory handle return the entries of  *)
(* the snapshot taken at OPENDIR, each once and in the order of the        *)
(* snapshot, at most 100 in one response; when all were returned, every    *)
(* further READDIR on the handle is answered with status 1 (EOF).          *)
(***************************************************************************)
C29_Directories ==
    { h \in DOMAIN sf_st.handles : sf_st.handles[h].kind = "Directory" }

C29_Listed ==
    \A h \in C29_Directories :
        sf_listed[h] = SubSeq(sf_st.handles[h].entries, 1, Len(sf_listed[h]))

C29_ReaddirStep ==
    (/\ sf_count' = sf_count + 1
     /\ sf_req'.type = 12
     /\ sf_req'.handle \in C29_Directories) =>
        LET h == sf_req'.handle
        IN  /\ sf_st'.handles[h].entries = sf_st.handles[h].entries
            /\ IF sf_listed[h] = sf_st.handles[h].entries
               THEN StatusIs(sf_res', 1) /\ sf_listed' = sf_listed
               ELSE /\ sf_res'.ok
                    /\ Len(sf_res'.resp) = 1
                    /\ sf_res'.resp[1].type = 104
                    /\ Len(sf_res'.resp[1].entries) \in 1..100
                    /\ sf_listed'[h] = sf_listed[h] \o sf_res'.resp[1].entries

C29_Snapshot == []C29_Listed /\ [][C29_ReaddirStep]_vars

\* a directory of more than 100 entries, listed in full, at the second EOF
C29_Witness ==
    /\ sf_count = 5
    /\ sf_st.handle_counter = 1
    /\ sf_req.type = 12
    /\ sf_req.handle \in C29_Directories
    /\ Len(sf_st.handles[sf_req.handle].entries) > 100
    /\ sf_listed[sf_req.handle] = sf_st.handles[sf_req.handle].entries
    /\ StatusIs(sf_res, 1)
    /\ sf_closed = {}

(***************************************************************************)
(* C30.  REALPATH answers with exactly one name.  The name starts with     *)
(* `/`, has no `.` or `..` component, is the components of the path that   *)
(* remain when `.` is dropped and `..` takes back the component before it  *)
(* (none at the root), `/` alone when none remains, and it is its own      *)
(* normalization; "/mods/../././config" gives "/config".                   *)
(***************************************************************************)
RECURSIVE C30_Remaining(_, _)
C30_Remaining(names, kept) ==
    IF names = <<>>
    THEN kept
    ELSE C30_Remaining(Tail(names),
            CASE Head(names) \in {<<>>, <<Dot>>} -> kept
              [] Head(names) = <<Dot, Dot>> -> SubSeq(kept, 1, Len(kept) - 1)
              [] OTHER -> Append(kept, Head(names)))

C30_Expected(path) ==
    LET kept == C30_Remaining(SplitPath(path, <<>>, <<>>), <<>>)
    IN  IF kept = <<>> THEN <<Slash>> ELSE <<Slash>> \o JoinPath(kept)

C30_Normal(name) ==
    /\ name # <<>>
    /\ name[1] = Slash
    /\ \A i \in 1..Len(SplitPath(name, <<>>, <<>>)) :
            SplitPath(name, <<>>, <<>>)[i] \notin {<<Dot>>, <<Dot, Dot>>}
    /\ Normalize(name) = name

C30_Realpath ==
    sf_req.type = 16 =>
        /\ sf_res.ok
        /\ Len(sf_res.resp) = 1
        /\ sf_res.resp[1].type = 104
        /\ Len(sf_res.resp[1].entries) = 1
        /\ C30_Normal(sf_res.resp[1].entries[1].name)
        /\ sf_res.resp[1].entries[1].name = C30_Expected(sf_req.path)
        /\ sf_req.path = ExamplePath =>
                sf_res.resp[1].entries[1].name = ExampleResult

\* the example, and a path that climbs above the root
C30_Witness ==
    /\ sf_req.type = 16
    /\ sf_req.path = ExamplePath
    /\ sf_res.resp[1].entries[1].name = ExampleResult
    /\ C30_Expected(<<Slash, LetterM, Slash, Dot, Dot, Slash, Dot, Dot>>) = <<Slash>>
pushFrame == <<appVars, bucketVars, cacheVars, statsVars, scheduleVars, sftpVars, pluginVars, pollerVars, cpuVars>>

(***************************************************************************)
(* SinkPool::push through several handles.                                 *)
(***************************************************************************)
PushNext ==
    \/ \E p \in Producers : PushNow(p) /\ UNCHANGED pushFrame
    \/ \E p \in Producers : PushStamped(p) /\ UNCHANGED pushFrame
    \/ \E p \in Producers : PushSent(p) /\ UNCHANGED pushFrame
    \/ PushClock /\ UNCHANGED pushFrame

SpecPush == Init /\ [][PushNext]_vars

(***************************************************************************)
(* C33.  After any interleaving of push calls through several handles,     *)
(* each stamped with the time its caller read, get_history returns the     *)
(* entries in non-decreasing timestamp order, and every entry it returns   *)
(* is whole: the data of one push with the timestamp of that push.         *)
(***************************************************************************)
C33_Whole ==
    \A i \in 1..Len(s_buffer) :
        \E j \in 1..Len(s_pushed) : s_buffer[i] = s_pushed[j]

C33_TimestampOrder ==
    /\ C33_Whole
    /\ \A i \in 1..Len(s_buffer) - 1 :
          s_buffer[i].timestamp <= s_buffer[i + 1].timestamp

(***************************************************************************)
(* C37.  A session whose user lacks the read permission never receives     *)
(* file contents: no response of type 103 (SSH_FXP_DATA) is returned to    *)
(* it, whatever the open flags and the user's other permissions.           *)
(***************************************************************************)
C37_NoData ==
    "read" \notin sf_st.user =>
        \A i \in 1..Len(sf_res.resp) : sf_res.resp[i].type # 103

(***************************************************************************)
(* The framing of a stream that holds malformed packets.                   *)
(***************************************************************************)
MalformedNext ==
    \/ SftpSendCut /\ UNCHANGED sftpFrame
    \/ SftpReceive /\ UNCHANGED sftpFrame

SpecMalformed == InitSftp /\ [][MalformedNext]_vars

(***************************************************************************)
(* C38.  Every complete request packet of a type 3..20 whose request id    *)
(* can be parsed gets exactly one response: once the whole stream has been *)
(* handed to process_packet, there is one response per packet, in the      *)
(* order of the packets and with their ids, also for the packets before    *)
(* and after a malformed one, and no packet is left unprocessed.           *)
(***************************************************************************)
C38_Delivered == sf_wire = <<>> /\ sf_sent # <<>> /\ sf_req # NoRequest

C38_EveryPacketAnswered ==
    C38_Delivered =>
        /\ sf_st.buffer = <<>>
        /\ Len(sf_out) = Len(sf_req.stream)
        /\ \A i \in 1..Len(sf_out) : sf_out[i].id = sf_req.stream[i].id

pluginFrame == <<appVars, sinkVars, bucketVars, cacheVars, statsVars, scheduleVars, sftpVars, pushVars, pollerVars, cpuVars>>
(***************************************************************************)
(* Concurrent plugin write requests on one file.                           *)
(***************************************************************************)
PluginNext ==
    \/ \E w \in PluginWriters, append \in BOOLEAN :
          PluginWriteBegin(w, append) /\ UNCHANGED pluginFrame
    \/ \E w \in PluginWriters : PluginWriteRead(w) /\ UNCHANGED pluginFrame
    \/ \E w \in PluginWriters : PluginWriteStore(w) /\ UNCHANGED pluginFrame
    \/ \E file \in PluginFiles : PluginFileSet(file) /\ UNCHANGED pluginFrame

SpecPlugin == Init /\ [][PluginNext]_vars

(***************************************************************************)
(* C40.  Two concurrent write requests with append = true on one file      *)
(* both take effect: when both have returned, the file holds the previous  *)
(* content followed by the two appended contents, each behind its line     *)
(* break, in one order or the other.                                       *)
(***************************************************************************)
C40_Appended(c) == <<NewLine>> \o c

C40_BothDone ==
    /\ Len(pw_log) = 2
    /\ \A i \in 1..2 : pw_log[i].append
    /\ \A w \in PluginWriters : pw_pc[w] = "idle"

C40_NoLostUpdate ==
    C40_BothDone =>
        /\ pw_file.exists
        /\ \E i, j \in 1..2 :
              /\ i # j
              /\ pw_file.bytes = pw_prev.bytes \o C40_Appended(pw_log[i].content)
                                    \o C40_Appended(pw_log[j].content)

pollerFrame == <<appVars, sinkVars, bucketVars, cacheVars, statsVars, scheduleVars, sftpVars, pushVars, pluginVars, cpuVars>>
(***************************************************************************)
(* The stats pollers on one stream.  The runtime and the owner of the      *)
(* token are free to act or not; a poller that can take a step takes it,   *)
(* and select! does not pass over a branch that stays ready.               *)
(***************************************************************************)
PollerSteps == PollStatsItem \/ PollStatsEnd \/ PollerSelectItem

PollerNext ==
    \/ \E kind \in Pollers : PollerStart(kind) /\ UNCHANGED pollerFrame
    \/ \E item \in StreamItems : StreamItem(item) /\ UNCHANGED pollerFrame
    \/ StreamEnd /\ UNCHANGED pollerFrame
    \/ PollerCancel /\ UNCHANGED pollerFrame
    \/ PollStatsItem /\ UNCHANGED pollerFrame
    \/ PollStatsEnd /\ UNCHANGED pollerFrame
    \/ PollerSelectItem /\ UNCHANGED pollerFrame
    \/ PollerSelectCancelled /\ UNCHANGED pollerFrame

SpecPoller == Init /\ [][PollerNext]_vars

SpecPollerFair ==
    /\ Init
    /\ [][PollerNext]_vars
    /\ WF_vars(PollerSteps /\ UNCHANGED pollerFrame)
    /\ WF_vars(PollerSelectCancelled /\ UNCHANGED pollerFrame)

(***************************************************************************)
(* C31.  A running stats poller returns once the container has stopped     *)
(* (the stream has an undelivered stop or decode error, or has ended) or   *)
(* its token is cancelled, whether or not the stream delivers a further    *)
(* item.                                                                   *)
(***************************************************************************)
C31_StopSeen ==
    \/ pl_cancelled
    \/ pl_stream = "ended"
    \/ pl_item.some /\ ~pl_item.value.ok
          /\ (IsStopped(pl_item.value) \/ IsJsonError(pl_item.value))

C31_Terminates == (pl_pc = "waiting" /\ C31_StopSeen) ~> (pl_pc = "returned")

\* the parts of it by cause and by poller
C31_OnError ==
    (pl_pc = "waiting" /\ ~pl_cancelled /\ pl_item.some /\ ~pl_item.value.ok
        /\ (IsStopped(pl_item.value) \/ IsJsonError(pl_item.value)))
      ~> (pl_pc = "returned")

C31_PollStatsOnEnd ==
    (pl_kind = "poll_stats" /\ pl_pc = "waiting" /\ pl_stream = "ended")
      ~> (pl_pc = "returned")

C31_TaskOnCancel ==
    (pl_kind = "start_stats_poller" /\ pl_pc = "waiting" /\ pl_cancelled)
      ~> (pl_pc = "returned")

C31_TaskOnEnd ==
    (pl_kind = "start_stats_poller" /\ pl_pc = "waiting" /\ pl_stream = "ended")
      ~> (pl_pc = "returned")

C31_PollStatsOnCancel ==
    (pl_kind = "poll_stats" /\ pl_pc = "waiting" /\ pl_cancelled)
      ~> (pl_pc = "returned")

\* an error that is neither is logged and the poller goes on
C31_OtherErrorContinues ==
    [][ (PollerSteps /\ pl_item.some /\ ~pl_cancelled /\ ~pl_item.value.ok
            /\ ~IsStopped(pl_item.value) /\ ~IsJsonError(pl_item.value))
          => (pl_pc' = "waiting" /\ pl_warned' = pl_warned + 1) ]_vars

cpuFrame == <<appVars, sinkVars, bucketVars, cacheVars, statsVars, scheduleVars, sftpVars, pushVars, pluginVars, pollerVars>>
(***************************************************************************)
(* calculate_cpu over the frames of a stream.                              *)
(***************************************************************************)
CpuNext == \E stats \in CpuFrames : CpuSample(stats) /\ UNCHANGED cpuFrame

SpecCpu == Init /\ [][CpuNext]_vars

(***************************************************************************)
(* C32.  calculate_cpu gives 0 for the first sample (a previous value is   *)
(* missing) and whenever the cpu delta or the system delta is zero or      *)
(* negative; otherwise it gives cpu_delta / system_delta * 100 * cpus to   *)
(* the nearest thousandth, with cpus = online_cpus, else the length of     *)
(* percpu_usage, else 1.  For cpu 100M -> 200M, system 500M -> 1000M and   *)
(* 4 cpus it gives 80.000.                                                 *)
(***************************************************************************)
C32_Cpus ==
    IF cc_in.stats.online_cpus.some THEN cc_in.stats.online_cpus.value
    ELSE IF cc_in.stats.percpu_usage.some THEN cc_in.stats.percpu_usage.value
    ELSE 1

C32_CpuDelta == cc_in.stats.total_usage - cc_in.prev_cpu.value

C32_SystemDelta ==
    (IF cc_in.stats.system_cpu_usage.some THEN cc_in.stats.system_cpu_usage.value ELSE 0)
        - cc_in.prev_system.value

\* out thousandths is x = cpu_delta / system_delta * 100 * cpus to the
\* nearest thousandth: -1/2 < out - 1000 x <= 1/2 ... with the half upwards
C32_Nearest(out, cpu_delta, system_delta, cpus) ==
    LET g == Gcd(cpu_delta, system_delta)
        n == (cpu_delta \div g) * 100000 * cpus
        d == system_delta \div g
    IN  /\ 2 * out * d - 2 * n <= d
        /\ 2 * n - 2 * out * d < d

C32_Example ==
    /\ cc_in.stats.total_usage = 200000000
    /\ cc_in.stats.system_cpu_usage = Some(1000000000)
    /\ cc_in.stats.online_cpus = Some(4)
    /\ cc_in.prev_cpu = Some(100000000)
    /\ cc_in.prev_system = Some(500000000)

C32_CalculateCpu ==
    cc_calls > 0 =>
        /\ IF ~cc_in.prev_cpu.some \/ ~cc_in.prev_system.some
           THEN cc_out = 0
           ELSE IF C32_CpuDelta <= 0 \/ C32_SystemDelta <= 0
                THEN cc_out = 0
                ELSE C32_Nearest(cc_out, C32_CpuDelta, C32_SystemDelta, C32_Cpus)
        /\ C32_Example => cc_out = 80000

\* a second sample with both deltas positive, the cpus taken from the
\* length of percpu_usage, and a result that is rounded up
C32_Witness ==
    /\ cc_calls > 1
    /\ cc_in.prev_cpu.some /\ cc_in.prev_system.some
    /\ C32_CpuDelta > 0 /\ C32_SystemDelta > 0
    /\ ~cc_in.stats.online_cpus.some /\ cc_in.stats.percpu_usage = Some(2)
    /\ cc_out * C32_SystemDelta > C32_CpuDelta * 100000 * 2

=============================================================================
